---- MODULE Spec2Model ----
(***************************************************************************)
(* Accessible guitar tab converter: the conversion pipeline of             *)
(* TabConverter.convert (format detection, chord chart parsing, tablature  *)
(* parsing, technique enrichment, output formatting).                      *)
(*                                                                         *)
(* A text is a sequence of one-character strings; "\n" separates lines.    *)
(* Regular expressions of the source are hand-translated into operators on *)
(* such sequences.                                                         *)
(***************************************************************************)
EXTENDS Integers, Sequences, FiniteSets, TLC

VARIABLES tabText, settingsInput, called, tabFormat, chords, tabData, result,
          usedSettings, converter, tables, calls

vars == <<tabText, settingsInput, called, tabFormat, chords, tabData, result,
          usedSettings, converter, tables, calls>>

(***************************************************************************)
(* Characters and character classes                                        *)
(***************************************************************************)
NL == "\n"

Digits == {"0", "1", "2", "3", "4", "5", "6", "7", "8", "9"}

UpperSeq == <<"A", "B", "C", "D", "E", "F", "G", "H", "I", "J", "K", "L", "M",
              "N", "O", "P", "Q", "R", "S", "T", "U", "V", "W", "X", "Y", "Z">>

LowerSeq == <<"a", "b", "c", "d", "e", "f", "g", "h", "i", "j", "k", "l", "m",
              "n", "o", "p", "q", "r", "s", "t", "u", "v", "w", "x", "y", "z">>

UpperLetters == {UpperSeq[i] : i \in DOMAIN UpperSeq}

LowerLetters == {LowerSeq[i] : i \in DOMAIN LowerSeq}

Letters == UpperLetters \cup LowerLetters

\* \s of the regular expressions and the characters String.prototype.trim removes
Whitespace == {" ", "\t", "\r", NL}

\* \w
WordChars == Letters \cup Digits \cup {"_"}

ToUpperChar(c) ==
    IF c \in LowerLetters
    THEN UpperSeq[CHOOSE i \in DOMAIN LowerSeq : LowerSeq[i] = c]
    ELSE c

ToLowerChar(c) ==
    IF c \in UpperLetters
    THEN LowerSeq[CHOOSE i \in DOMAIN UpperSeq : UpperSeq[i] = c]
    ELSE c

DigitVal(c) ==
    CASE c = "0" -> 0 [] c = "1" -> 1 [] c = "2" -> 2 [] c = "3" -> 3
      [] c = "4" -> 4 [] c = "5" -> 5 [] c = "6" -> 6 [] c = "7" -> 7
      [] c = "8" -> 8 [] c = "9" -> 9

(***************************************************************************)
(* String helpers (String.prototype.split / trim / parseInt)               *)
(***************************************************************************)
Tail2(s, i) == SubSeq(s, i, Len(s))

AllIn(s, set) == \A i \in 1..Len(s) : s[i] \in set

\* length of the longest prefix of s made of characters of set
RunLen(s, set) ==
    IF AllIn(s, set) THEN Len(s)
    ELSE (CHOOSE i \in 1..Len(s) : s[i] \notin set /\ \A j \in 1..(i - 1) : s[j] \in set) - 1

RECURSIVE Split(_, _)
Split(s, c) ==
    IF \A i \in 1..Len(s) : s[i] # c THEN <<s>>
    ELSE LET i == CHOOSE i \in 1..Len(s) : s[i] = c /\ \A j \in 1..(i - 1) : s[j] # c
         IN  <<SubSeq(s, 1, i - 1)>> \o Split(Tail2(s, i + 1), c)

TrimStart(s) == Tail2(s, RunLen(s, Whitespace) + 1)

Reverse(s) == [i \in 1..Len(s) |-> s[Len(s) + 1 - i]]

TrimEnd(s) == SubSeq(s, 1, Len(s) - RunLen(Reverse(s), Whitespace))

Trim(s) == TrimEnd(TrimStart(s))

IsNonBlank(line) == Trim(line) # <<>>

\* tabText.split('\n').filter(line => line.trim())
NonBlankLines(text) == SelectSeq(Split(text, NL), IsNonBlank)

RECURSIVE DecVal(_)
DecVal(ds) ==
    IF ds = <<>> THEN 0
    ELSE 10 * DecVal(SubSeq(ds, 1, Len(ds) - 1)) + DigitVal(ds[Len(ds)])

RECURSIVE HexVal(_)
HexVal(ds) ==
    IF ds = <<>> THEN 0
    ELSE 16 * HexVal(SubSeq(ds, 1, Len(ds) - 1)) + DigitVal(ds[Len(ds)])

\* the sentinel of a muted string, 'mute' in the source
Mute == -1

\* the NaN parseInt returns when no number starts the string
NaN == -2

\* parseInt(token) for a token without sign: leading white space is skipped,
\* a 0x / 0X prefix selects radix 16, the longest run of digits is read and
\* the rest is ignored. (The hexadecimal digits a-f never follow a prefix in
\* the fret lists, whose characters are digits, X, x and the separator.)
ParseInt(t) ==
    LET s == TrimStart(t)
    IN  IF Len(s) >= 2 /\ s[1] = "0" /\ s[2] \in {"x", "X"}
        THEN LET h == SubSeq(s, 3, 2 + RunLen(Tail2(s, 3), Digits))
             IN  IF h = <<>> THEN NaN ELSE HexVal(h)
        ELSE LET d == SubSeq(s, 1, RunLen(s, Digits))
             IN  IF d = <<>> THEN NaN ELSE DecVal(d)

(***************************************************************************)
(* PATTERNS (utils/constants.js) and the validators built on them          *)
(***************************************************************************)
ChordRootChars == {"A", "B", "C", "D", "E", "F", "G", "a", "b", "c", "d", "e", "f", "g"}

FretListChars == Digits \cup {"X", "x", "-"}

\* CHORD_LINE: /^([A-G][#b]?[\w\*]*)[\s]*:[\s]*([\dX\-]+)$/i
\* The colon is the first one of the line (no class before it holds ':'),
\* the name is the greedy match of group 1, the fret list the rest after the
\* white space that follows the colon.
ChordLineMatch(s) ==
    LET colons == {i \in 1..Len(s) : s[i] = ":"}
        c      == CHOOSE i \in colons : \A j \in colons : i <= j
        prefix == SubSeq(s, 1, c - 1)
        suffix == Tail2(s, c + 1)
        sharp  == IF Len(prefix) >= 2 /\ prefix[2] = "#" THEN 1 ELSE 0
        nameEnd == 1 + sharp + RunLen(Tail2(prefix, 2 + sharp), WordChars \cup {"*"})
        fretString == TrimStart(suffix)
        ok == /\ colons # {}
              /\ Len(prefix) >= 1
              /\ prefix[1] \in ChordRootChars
              /\ AllIn(Tail2(prefix, nameEnd + 1), Whitespace)
              /\ fretString # <<>>
              /\ AllIn(fretString, FretListChars)
    IN  IF colons # {} /\ ok
        THEN [ok |-> TRUE, name |-> SubSeq(prefix, 1, nameEnd), fretString |-> fretString]
        ELSE [ok |-> FALSE, name |-> <<>>, fretString |-> <<>>]

IsChordLine(s) == ChordLineMatch(s).ok

StandardTabChars == Digits \cup Whitespace \cup {"-", "/", "\\", "~", "^", "v", "h", "p", "|"}

\* STANDARD_TAB_LINE: /^\|[-\d\/\\~\^vhp\s|]+\|?$/  ('|' is in the class, so
\* the optional closing bar adds nothing)
MatchesStandardTabLine(s) ==
    /\ Len(s) >= 2
    /\ s[1] = "|"
    /\ AllIn(Tail2(s, 2), StandardTabChars)

\* /^\|[-\d\/\\~\^vhp\s|]+\|[-\d\/\\~\^vhp\s|]+/ : unanchored at the end; a
\* bar inside the run of class characters after the opening bar, with at
\* least one class character on each side of it
MatchesStandardTabPrefix(s) ==
    /\ Len(s) >= 4
    /\ s[1] = "|"
    /\ LET r == RunLen(Tail2(s, 2), StandardTabChars)
       IN  \E j \in 3..r : s[j] = "|"

isStandardTabLine(line) ==
    MatchesStandardTabLine(line) \/ MatchesStandardTabPrefix(line)

\* TAB_LINE: /[E|A|D|G|B|e][\s]*[:|\|].*[-|\d]/ (the bars inside the classes
\* are literal members)
TabLabelChars == {"E", "|", "A", "D", "G", "B", "e"}

LineTerminators == {NL, "\r"}

MatchesTabLine(s) ==
    \E i \in 1..Len(s) :
        /\ s[i] \in TabLabelChars
        /\ \E j \in (i + 1)..Len(s) :
              /\ s[j] \in {":", "|"}
              /\ \A m \in (i + 1)..(j - 1) : s[m] \in Whitespace
              /\ \E k \in (j + 1)..Len(s) :
                    /\ s[k] \in Digits \cup {"-", "|"}
                    /\ \A m \in (j + 1)..(k - 1) : s[m] \notin LineTerminators

isTabLine(line) ==
    LET hasNumbers == \E i \in 1..Len(line) : line[i] \in Digits
        hasDashes  == \E i \in 1..Len(line) : line[i] = "-"
    IN  MatchesTabLine(line) /\ (hasNumbers \/ hasDashes)

\* case-insensitive match of the word w at position i of s
HasWordAt(s, i, w) ==
    /\ i + Len(w) - 1 <= Len(s)
    /\ \A k \in 1..Len(w) : ToLowerChar(s[i + k - 1]) = w[k]

LegendWords ==
    { <<"b", "e", "n", "d">>, <<"h", "a", "m", "m", "e", "r">>, <<"p", "u", "l", "l">>,
      <<"s", "l", "i", "d", "e">>, <<"v", "i", "b", "r", "a", "t", "o">>,
      <<"t", "r", "i", "l", "l">>, <<"r", "e", "l", "e", "a", "s", "e">> }

\* TECHNIQUE_LINE: /^[~\/\\\^vhp]\s+/
MatchesTechniqueLine(s) ==
    /\ Len(s) >= 2
    /\ s[1] \in {"~", "/", "\\", "^", "v", "h", "p"}
    /\ s[2] \in Whitespace

\* LEGEND_LINE: /^\|\s*[a-zA-Z]\s+(Bend|Hammer|Pull|Slide|Vibrato|Trill|Release)/i
MatchesLegendLine(s) ==
    /\ Len(s) >= 1
    /\ s[1] = "|"
    /\ LET a == 2 + RunLen(Tail2(s, 2), Whitespace)
       IN  /\ a <= Len(s)
           /\ s[a] \in Letters
           /\ LET w == RunLen(Tail2(s, a + 1), Whitespace)
              IN  /\ w >= 1
                  /\ \E word \in LegendWords : HasWordAt(s, a + 1 + w, word)

isTechniqueLine(line) == MatchesTechniqueLine(line) \/ MatchesLegendLine(line)

IsChordLineTrimmed(line) == IsChordLine(Trim(line))

\* the chordLines counter of isChordChart after its loop
ChordLineCount(lines) == Cardinality({i \in 1..Len(lines) : IsChordLineTrimmed(lines[i])})

\* isChordChart with the threshold included: (chordLines / lines.length) >= 0.5
isChordChartFromHalf(lines) ==
    LET chordLines == ChordLineCount(lines)
    IN  chordLines > 0 /\ 2 * chordLines >= Len(lines)

\* chordLines > 0 && (chordLines / lines.length) > 0.5
isChordChart(lines) ==
    LET chordLines == ChordLineCount(lines)
    IN  chordLines > 0 /\ 2 * chordLines > Len(lines)

CHORD_CHART == "chord_chart"

LABELED_TAB == "labeled_tab"

STANDARD_TAB == "standard_tab"

\* the null detectTabFormat returns when nothing matches
NoFormat == "null"

detectTabFormat(text) ==
    LET lines == NonBlankLines(text)
    IN  IF isChordChart(lines) THEN CHORD_CHART
        ELSE IF Len(SelectSeq(lines, isStandardTabLine)) >= 3 THEN STANDARD_TAB
        ELSE IF Len(SelectSeq(lines, isTabLine)) >= 3 THEN LABELED_TAB
        ELSE NoFormat

(***************************************************************************)
(* ChordParser                                                             *)
(***************************************************************************)
\* parseFretPositions: split on '-', X/x is muted, a token parseInt cannot
\* read is muted as well
FretOfToken(f) ==
    IF Len(f) = 1 /\ ToUpperChar(f[1]) = "X" THEN Mute
    ELSE IF ParseInt(f) = NaN THEN Mute
    ELSE ParseInt(f)

parseFretPositions(fretString) ==
    LET toks == Split(fretString, "-")
    IN  [i \in 1..Len(toks) |-> FretOfToken(toks[i])]

MaxFretNumber == 24

MinChordStrings == 6

MaxChordStrings == 8

\* isValidFret with the upper limit of the range excluded
isValidFretBelowLimit(fret) ==
    IF fret = Mute THEN TRUE
    ELSE fret # NaN /\ fret >= 0 /\ fret < MaxFretNumber

\* isValidFret on the values parseFretPositions produces
isValidFret(fret) ==
    IF fret = Mute THEN TRUE
    ELSE fret # NaN /\ fret >= 0 /\ fret <= MaxFretNumber

isValidChord(frets) ==
    IF Len(frets) < MinChordStrings \/ Len(frets) > MaxChordStrings THEN FALSE
    ELSE \A i \in 1..Len(frets) : isValidFret(frets[i])

\* parseChordLine: <<chord>>, or <<>> for the null of the source
parseChordLine(line) ==
    LET match == ChordLineMatch(line)
        frets == parseFretPositions(match.fretString)
    IN  IF ~match.ok THEN <<>>
        ELSE IF ~isValidChord(frets) THEN <<>>
        ELSE << [name |-> match.name, frets |-> frets, stringCount |-> Len(frets)] >>

RECURSIVE parseChordChart(_)
parseChordChart(lines) ==
    IF lines = <<>> THEN <<>>
    ELSE parseChordLine(Trim(Head(lines))) \o parseChordChart(Tail(lines))

(***************************************************************************)
(* StandardTabParser: grouping                                             *)
(***************************************************************************)
STRING_NAMES == <<"E", "B", "G", "D", "A", "E">>

STRING_NAMES_7 == <<"E", "B", "G", "D", "A", "E", "B">>

STRING_NAMES_8 == <<"E", "B", "G", "D", "A", "E", "B", "F#">>

getStringNamesForCount(count) ==
    CASE count = 7 -> STRING_NAMES_7
      [] count = 8 -> STRING_NAMES_8
      [] count = 6 -> STRING_NAMES
      [] OTHER -> [i \in 1..count |->
                      IF i - 1 < 6 THEN STRING_NAMES[i]
                      ELSE IF i - 1 = 6 THEN "B"
                      ELSE IF i - 1 = 7 THEN "F#"
                      ELSE "String " \o ToString(i)]

\* currentGroup.forEach((line, index) => line.stringName = stringNames[index])
WithStringNames(group) ==
    LET names == getStringNamesForCount(Len(group))
    IN  [i \in 1..Len(group) |-> [group[i] EXCEPT !.stringName = names[i]]]

MinGroupLines == 3

CompleteGroupLines == 6

MaxStandardGroupLines == 8

StdLine(content, group, lineNumber) ==
    [content |-> content, stringIndex |-> Len(group),
     stringName |-> "null", lineNumber |-> lineNumber]

\* identifyStandardTabFormat without the look-ahead: a group ends at 6 lines
LookAheadSkipped(lines, next, i, group) == [i |-> i, group |-> group]

\* the look-ahead loop of identifyStandardTabFormat (source lines 111-129):
\* next is nextLineIndex, i the index the main loop resumes after
RECURSIVE LookAhead(_, _, _, _)
LookAhead(lines, next, i, group) ==
    IF ~(next < Len(lines) /\ Len(group) < MaxStandardGroupLines)
    THEN [i |-> i, group |-> group]
    ELSE LET nextLine == Trim(lines[next + 1])
         IN  IF isStandardTabLine(nextLine)
             THEN LookAhead(lines, next + 1, next,
                            Append(group, StdLine(nextLine, group, next)))
             ELSE IF nextLine = <<>> \/ isTechniqueLine(nextLine)
             THEN LookAhead(lines, next + 1, i, group)
             ELSE [i |-> i, group |-> group]

\* the main loop of identifyStandardTabFormat; i is the 0-based line index
RECURSIVE StandardLoop(_, _, _, _)
StandardLoop(lines, i, currentGroup, tabGroups) ==
    IF i >= Len(lines)
    THEN IF Len(currentGroup) >= MinGroupLines
         THEN Append(tabGroups, WithStringNames(currentGroup))
         ELSE tabGroups
    ELSE LET line == Trim(lines[i + 1])
         IN  IF line = <<>> \/ isTechniqueLine(line)
             THEN StandardLoop(lines, i + 1, currentGroup, tabGroups)
             ELSE IF isStandardTabLine(line)
             THEN LET pushed == Append(currentGroup, StdLine(line, currentGroup, i))
                  IN  IF Len(pushed) >= CompleteGroupLines
                      THEN LET la == LookAhead(lines, i + 1, i, pushed)
                           IN  StandardLoop(lines, la.i + 1, <<>>,
                                            Append(tabGroups, WithStringNames(la.group)))
                      ELSE StandardLoop(lines, i + 1, pushed, tabGroups)
             ELSE IF Len(currentGroup) > 0
             THEN StandardLoop(lines, i + 1, <<>>,
                               IF Len(currentGroup) >= MinGroupLines
                               THEN Append(tabGroups, WithStringNames(currentGroup))
                               ELSE tabGroups)
             ELSE StandardLoop(lines, i + 1, currentGroup, tabGroups)

identifyStandardTabFormat(lines) == StandardLoop(lines, 0, <<>>, <<>>)

\* the stringPatterns table of identifyString, in its order
stringPatterns ==
    << [label |-> <<"e">>, index |-> 0, name |-> "E"],
       [label |-> <<"E">>, index |-> 0, name |-> "E"],
       [label |-> <<"B">>, index |-> 1, name |-> "B"],
       [label |-> <<"G">>, index |-> 2, name |-> "G"],
       [label |-> <<"D">>, index |-> 3, name |-> "D"],
       [label |-> <<"A">>, index |-> 4, name |-> "A"],
       [label |-> <<"E">>, index |-> 5, name |-> "E"],
       [label |-> <<"B">>, index |-> 6, name |-> "B"],
       [label |-> <<"F", "#">>, index |-> 7, name |-> "F#"],
       [label |-> <<"F">>, index |-> 7, name |-> "F#"] >>

\* /^<label>[\s]*[:!|]/
MatchesStringPattern(s, label) ==
    /\ Len(s) > Len(label)
    /\ SubSeq(s, 1, Len(label)) = label
    /\ LET w == RunLen(Tail2(s, Len(label) + 1), Whitespace)
       IN  /\ Len(label) + w + 1 <= Len(s)
           /\ s[Len(label) + w + 1] \in {":", "!", "|"}

\* identifyString: the first pattern of the table that matches decides
identifyString(line) ==
    LET trimmed == Trim(line)
        hits == {k \in DOMAIN stringPatterns : MatchesStringPattern(trimmed, stringPatterns[k].label)}
        k == CHOOSE h \in hits : \A g \in hits : h <= g
        sp == stringPatterns[k]
    IN  IF hits = {} THEN [found |-> FALSE, index |-> 0, name |-> "null"]
        ELSE IF sp.name = "E"
        THEN [found |-> TRUE, index |-> sp.index,
              name |-> IF sp.index = 0 THEN "high E" ELSE "low E"]
        ELSE IF sp.name = "B" /\ (sp.index = 1 \/ sp.index = 6)
        THEN [found |-> TRUE, index |-> sp.index,
              name |-> IF sp.index = 1 THEN "B" ELSE "low B"]
        ELSE [found |-> TRUE, index |-> sp.index, name |-> sp.name]

\* the labeled fall-back loop of identifyTabLines (source lines 46-73)
RECURSIVE LabeledLoop(_, _, _, _)
LabeledLoop(lines, i, currentGroup, tabLineGroups) ==
    IF i >= Len(lines)
    THEN IF Len(currentGroup) >= MinGroupLines
         THEN Append(tabLineGroups, currentGroup)
         ELSE tabLineGroups
    ELSE LET line == lines[i + 1]
             stringInfo == identifyString(line)
         IN  IF isTabLine(line)
             THEN LabeledLoop(lines, i + 1,
                              IF stringInfo.found
                              THEN Append(currentGroup,
                                          [content |-> line, stringIndex |-> stringInfo.index,
                                           stringName |-> stringInfo.name, lineNumber |-> i])
                              ELSE currentGroup,
                              tabLineGroups)
             ELSE IF Len(currentGroup) > 0
             THEN LabeledLoop(lines, i + 1, <<>>,
                              IF Len(currentGroup) >= MinGroupLines
                              THEN Append(tabLineGroups, currentGroup)
                              ELSE tabLineGroups)
             ELSE LabeledLoop(lines, i + 1, currentGroup, tabLineGroups)

identifyTabLines(lines) ==
    LET standardTabGroup == identifyStandardTabFormat(lines)
    IN  IF Len(standardTabGroup) > 0 THEN standardTabGroup
        ELSE LabeledLoop(lines, 0, <<>>, <<>>)

(***************************************************************************)
(* StandardTabParser: annotations                                          *)
(***************************************************************************)
HasSubstringCI(s, w) == \E i \in 1..Len(s) : HasWordAt(s, i, w)

\* /^[IVX]+\s*-/
IsSectionText(t) ==
    LET r == RunLen(t, {"I", "V", "X"})
        w == RunLen(Tail2(t, r + 1), Whitespace)
    IN  r >= 1 /\ r + w + 1 <= Len(t) /\ t[r + w + 1] = "-"

\* trimmed.startsWith('"') || trimmed.includes('"')
IsLyricsText(t) == \E i \in 1..Len(t) : t[i] = "\""

\* /\d+:\d+/
IsTimingText(t) ==
    \E i \in 2..(Len(t) - 1) : t[i] = ":" /\ t[i - 1] \in Digits /\ t[i + 1] \in Digits

\* /repeat|times|x\d+/i
IsInstructionText(t) ==
    \/ HasSubstringCI(t, <<"r", "e", "p", "e", "a", "t">>)
    \/ HasSubstringCI(t, <<"t", "i", "m", "e", "s">>)
    \/ \E i \in 1..(Len(t) - 1) : t[i] \in {"x", "X"} /\ t[i + 1] \in Digits

\* /^[A-G][#b]?[\w]*\s+[A-G][#b]?/
IsChordsText(t) ==
    /\ Len(t) >= 1
    /\ t[1] \in {"A", "B", "C", "D", "E", "F", "G"}
    /\ LET sharp == IF Len(t) >= 2 /\ t[2] = "#" THEN 1 ELSE 0
           e == 1 + sharp + RunLen(Tail2(t, 2 + sharp), WordChars)
           w == RunLen(Tail2(t, e + 1), Whitespace)
       IN  /\ w >= 1
           /\ e + w + 1 <= Len(t)
           /\ t[e + w + 1] \in {"A", "B", "C", "D", "E", "F", "G"}

CategoryOf(trimmed) ==
    IF IsSectionText(trimmed) THEN "section"
    ELSE IF IsLyricsText(trimmed) THEN "lyrics"
    ELSE IF IsTimingText(trimmed) THEN "timing"
    ELSE IF IsInstructionText(trimmed) THEN "instruction"
    ELSE IF IsChordsText(trimmed) THEN "chords"
    ELSE "note"

IsAnnotationLine(line) ==
    /\ ~isTabLine(line)
    /\ ~isStandardTabLine(line)
    /\ ~isTechniqueLine(line)
    /\ Len(Trim(line)) > 0

\* extractAnnotations; position is line.indexOf(trimmed), the count of
\* leading white space
RECURSIVE AnnotationLoop(_, _)
AnnotationLoop(lines, i) ==
    IF i >= Len(lines) THEN <<>>
    ELSE LET line == lines[i + 1]
             trimmed == Trim(line)
         IN  (IF IsAnnotationLine(line)
              THEN << [text |-> trimmed, position |-> RunLen(line, Whitespace),
                       lineNumber |-> i, category |-> CategoryOf(trimmed)] >>
              ELSE <<>>) \o AnnotationLoop(lines, i + 1)

extractAnnotations(lines) == AnnotationLoop(lines, 0)

Abs(x) == IF x < 0 THEN 0 - x ELSE x

AnnotationColumnReach == 10

AnnotationLineReach == 2

\* findAnnotationAtPosition that keeps the last annotation in reach
findAnnotationAtPositionOfLast(annotations, position, lineNumber) ==
    LET near == {k \in 1..Len(annotations) :
                    /\ Abs(annotations[k].position - position) <= AnnotationColumnReach
                    /\ Abs(annotations[k].lineNumber - lineNumber) <= AnnotationLineReach}
    IN  IF near = {} THEN <<>>
        ELSE annotations[CHOOSE k \in near : \A m \in near : k >= m].text

\* findAnnotationAtPosition: the text of the first annotation in reach, <<>>
\* for the null of the source (an annotation text is never empty)
findAnnotationAtPosition(annotations, position, lineNumber) ==
    LET near == {k \in 1..Len(annotations) :
                    /\ Abs(annotations[k].position - position) <= AnnotationColumnReach
                    /\ Abs(annotations[k].lineNumber - lineNumber) <= AnnotationLineReach}
    IN  IF near = {} THEN <<>>
        ELSE annotations[CHOOSE k \in near : \A m \in near : k <= m].text

(***************************************************************************)
(* StandardTabParser: column walk                                          *)
(***************************************************************************)
\* techniqueMap of findTechniques; "" for a character without entry
techniqueMap(c) ==
    CASE c = "h" -> "hammer-on"
      [] c = "p" -> "pull-off"
      [] c = "b" -> "bend"
      [] c = "r" -> "release"
      [] c = "s" -> "slide"
      [] c = "/" -> "slide up"
      [] c = "\\" -> "slide down"
      [] c = "~" -> "vibrato"
      [] c = "t" -> "tap"
      [] c = "^" -> "bend"
      [] c = "v" -> "whammy"
      [] OTHER -> ""

\* the technique found at the 0-based column pos, if any
TechniqueAt(content, pos) ==
    IF pos >= 0 /\ pos < Len(content) /\ techniqueMap(content[pos + 1]) # ""
    THEN <<techniqueMap(content[pos + 1])>>
    ELSE <<>>

findTechniques(content, notePosition, noteLength) ==
    TechniqueAt(content, notePosition - 1) \o TechniqueAt(content, notePosition + noteLength)

\* parseNoteAtPosition: <<note>>, or <<>> for the null of the source;
\* position is the 0-based column
parseNoteAtPosition(stringLine, position) ==
    LET content == stringLine.content
        char == content[position + 1]
        runLen == RunLen(Tail2(content, position + 1), Digits)
        fretNum == SubSeq(content, position + 1, position + runLen)
    IN  IF position >= Len(content) THEN <<>>
        ELSE IF char \in {"-", "|", " ", ":"} THEN <<>>
        ELSE IF fretNum = <<>>
        THEN IF char \in {"x", "X"}
             THEN << [string |-> stringLine.stringName, stringIndex |-> stringLine.stringIndex,
                      fret |-> Mute, techniques |-> <<>>, position |-> position] >>
             ELSE <<>>
        ELSE << [string |-> stringLine.stringName, stringIndex |-> stringLine.stringIndex,
                 fret |-> ParseInt(fretNum),
                 techniques |-> findTechniques(content, position, runLen),
                 position |-> position] >>

RECURSIVE NotesAtPosition(_, _)
NotesAtPosition(tabGroup, pos) ==
    IF tabGroup = <<>> THEN <<>>
    ELSE parseNoteAtPosition(Head(tabGroup), pos) \o NotesAtPosition(Tail(tabGroup), pos)

\* tabGroup.sort((a, b) => a.stringIndex - b.stringIndex): a stable sort
RECURSIVE SortByStringIndex(_)
SortByStringIndex(group) ==
    IF group = <<>> THEN <<>>
    ELSE LET lowest == CHOOSE i \in 1..Len(group) :
                          /\ \A j \in 1..Len(group) : group[i].stringIndex <= group[j].stringIndex
                          /\ \A j \in 1..(i - 1) : group[j].stringIndex # group[i].stringIndex
         IN  <<group[lowest]>> \o
             SortByStringIndex(SubSeq(group, 1, lowest - 1) \o Tail2(group, lowest + 1))

MaxOf(set) == CHOOSE x \in set : \A y \in set : y <= x

RECURSIVE ColumnWalk(_, _, _, _)
ColumnWalk(tabGroup, annotations, pos, maxLength) ==
    IF pos >= maxLength THEN <<>>
    ELSE LET notesAtPosition == NotesAtPosition(tabGroup, pos)
         IN  (IF Len(notesAtPosition) > 0
              THEN << [position |-> pos,
                       annotation |-> findAnnotationAtPosition(annotations, pos,
                                                               tabGroup[1].lineNumber),
                       notes |-> notesAtPosition,
                       isChord |-> Len(notesAtPosition) > 1] >>
              ELSE <<>>) \o ColumnWalk(tabGroup, annotations, pos + 1, maxLength)

\* parseTabGroup without tabGroup.sort: the lines are walked in input order
parseTabGroupUnsorted(tabGroup, annotations, sectionNumber) ==
    LET maxLength == MaxOf({Len(tabGroup[i].content) : i \in 1..Len(tabGroup)})
    IN  [section |-> sectionNumber,
         notes |-> ColumnWalk(tabGroup, annotations, 0, maxLength)]

parseTabGroup(tabGroup, annotations, sectionNumber) ==
    LET sorted == SortByStringIndex(tabGroup)
        maxLength == MaxOf({Len(sorted[i].content) : i \in 1..Len(sorted)})
    IN  [section |-> sectionNumber,
         notes |-> ColumnWalk(sorted, annotations, 0, maxLength)]

\* the loop of parseNoteSequences without the test sequence.notes.length > 0
RECURSIVE SequenceLoopKeepingAll(_, _, _)
SequenceLoopKeepingAll(tabLineGroups, annotations, groupIndex) ==
    IF groupIndex >= Len(tabLineGroups) THEN <<>>
    ELSE <<parseTabGroup(tabLineGroups[groupIndex + 1], annotations, groupIndex + 1)>>
         \o SequenceLoopKeepingAll(tabLineGroups, annotations, groupIndex + 1)

RECURSIVE SequenceLoop(_, _, _)
SequenceLoop(tabLineGroups, annotations, groupIndex) ==
    IF groupIndex >= Len(tabLineGroups) THEN <<>>
    ELSE LET sequence == parseTabGroup(tabLineGroups[groupIndex + 1], annotations, groupIndex + 1)
         IN  (IF Len(sequence.notes) > 0 THEN <<sequence>> ELSE <<>>)
             \o SequenceLoop(tabLineGroups, annotations, groupIndex + 1)

parseNoteSequences(tabLineGroups, annotations) == SequenceLoop(tabLineGroups, annotations, 0)

\* the object parse returns; parseTabGroup sorts each group in place, so the
\* groups returned are the sorted ones
ParsedData(tabLineGroups, annotations) ==
    [sequences |-> parseNoteSequences(tabLineGroups, annotations),
     annotations |-> annotations,
     tabLineGroups |-> [g \in 1..Len(tabLineGroups) |-> SortByStringIndex(tabLineGroups[g])]]

\* StandardTabParser.parse
parse(lines) == ParsedData(identifyTabLines(lines), extractAnnotations(lines))

(***************************************************************************)
(* TechniqueParser                                                         *)
(***************************************************************************)
getTechniqueDescription(technique) ==
    CASE technique = "hammer-on" -> "Strike the string and tap the higher fret with another finger"
      [] technique = "pull-off" -> "Pull your finger off the fret to sound the lower note"
      [] technique = "bend" -> "Push or pull the string to raise the pitch"
      [] technique = "release" -> "Return the bent string to its original position"
      [] technique = "slide" -> "Slide your finger along the string between frets"
      [] technique = "slide up" -> "Slide your finger up to a higher fret"
      [] technique = "slide down" -> "Slide your finger down to a lower fret"
      [] technique = "vibrato" -> "Rapidly bend and release the string for a wavering effect"
      [] technique = "tap" -> "Tap the fret with your picking hand finger"
      [] technique = "mute" -> "Lightly touch the string to prevent it from ringing"
      [] technique = "whammy" -> "Use the whammy bar to lower and raise the pitch"
      [] OTHER -> technique

\* notes.find(n => n.stringIndex === note.stringIndex): <<n>> or <<>>;
\* a neighbour of <<>> is the null previousNote / nextNote of enhanceNotes
FindOnString(neighbour, stringIndex) ==
    IF neighbour = <<>> THEN <<>>
    ELSE LET ns == neighbour[1].notes
             hits == {k \in 1..Len(ns) : ns[k].stringIndex = stringIndex}
         IN  IF hits = {} THEN <<>>
             ELSE <<ns[CHOOSE k \in hits : \A m \in hits : k <= m]>>

IsNumberFret(fret) == fret # Mute

\* ${note.fret} in a template string
FretText(fret) == IF fret = Mute THEN "mute" ELSE ToString(fret)

\* getSlideContext that takes the first Note of the next NoteGroup,
\* whatever its string
getSlideContextOfAnyString(note, nextNote, technique) ==
    LET nextNoteOnString == IF nextNote = <<>> THEN <<>> ELSE <<nextNote[1].notes[1]>>
    IN  IF nextNoteOnString # <<>> /\ IsNumberFret(nextNoteOnString[1].fret)
        THEN "Slide " \o (IF technique = "slide up" THEN "up" ELSE "down") \o " from "
             \o FretText(note.fret) \o " to " \o ToString(nextNoteOnString[1].fret)
        ELSE ""

getSlideContext(note, nextNote, technique) ==
    LET nextNoteOnString == FindOnString(nextNote, note.stringIndex)
    IN  IF nextNoteOnString # <<>> /\ IsNumberFret(nextNoteOnString[1].fret)
        THEN "Slide " \o (IF technique = "slide up" THEN "up" ELSE "down") \o " from "
             \o FretText(note.fret) \o " to " \o ToString(nextNoteOnString[1].fret)
        ELSE ""

\* getHammerPullContext that reads the hammer-on from the next NoteGroup
getHammerPullContextFromNext(note, previousNote, nextNote, technique) ==
    LET nextNoteOnString == FindOnString(nextNote, note.stringIndex)
    IN  IF technique = "hammer-on" /\ nextNote # <<>>
        THEN IF nextNoteOnString # <<>> /\ IsNumberFret(nextNoteOnString[1].fret)
             THEN "Hammer from " \o ToString(nextNoteOnString[1].fret)
                  \o " to " \o FretText(note.fret)
             ELSE ""
        ELSE IF technique = "pull-off" /\ nextNote # <<>>
        THEN IF nextNoteOnString # <<>> /\ IsNumberFret(nextNoteOnString[1].fret)
             THEN "Pull off from " \o FretText(note.fret)
                  \o " to " \o ToString(nextNoteOnString[1].fret)
             ELSE ""
        ELSE ""

getHammerPullContext(note, previousNote, nextNote, technique) ==
    LET prevNoteOnString == FindOnString(previousNote, note.stringIndex)
        nextNoteOnString == FindOnString(nextNote, note.stringIndex)
    IN  IF technique = "hammer-on" /\ previousNote # <<>>
        THEN IF prevNoteOnString # <<>> /\ IsNumberFret(prevNoteOnString[1].fret)
             THEN "Hammer from " \o ToString(prevNoteOnString[1].fret)
                  \o " to " \o FretText(note.fret)
             ELSE ""
        ELSE IF technique = "pull-off" /\ nextNote # <<>>
        THEN IF nextNoteOnString # <<>> /\ IsNumberFret(nextNoteOnString[1].fret)
             THEN "Pull off from " \o FretText(note.fret)
                  \o " to " \o ToString(nextNoteOnString[1].fret)
             ELSE ""
        ELSE ""

getBendContext(note) == "Bend the string at fret " \o FretText(note.fret)

\* getDetailedTechniques that keeps the entries that have a context
getDetailedTechniquesWithContext(note, previousNote, nextNote) ==
    SelectSeq(
        [k \in 1..Len(note.techniques) |->
            LET technique == note.techniques[k]
            IN  [name |-> technique,
                 description |-> getTechniqueDescription(technique),
                 context |->
                    IF technique = "slide up" \/ technique = "slide down"
                    THEN getSlideContext(note, nextNote, technique)
                    ELSE IF technique = "hammer-on" \/ technique = "pull-off"
                    THEN getHammerPullContext(note, previousNote, nextNote, technique)
                    ELSE IF technique = "bend"
                    THEN getBendContext(note)
                    ELSE ""]],
        LAMBDA details : details.context # "")

\* one entry per technique; context "" stands for both the empty string and
\* the absent context of the source (both are falsy where it is read)
getDetailedTechniques(note, previousNote, nextNote) ==
    [k \in 1..Len(note.techniques) |->
        LET technique == note.techniques[k]
        IN  [name |-> technique,
             description |-> getTechniqueDescription(technique),
             context |->
                IF technique = "slide up" \/ technique = "slide down"
                THEN getSlideContext(note, nextNote, technique)
                ELSE IF technique = "hammer-on" \/ technique = "pull-off"
                THEN getHammerPullContext(note, previousNote, nextNote, technique)
                ELSE IF technique = "bend"
                THEN getBendContext(note)
                ELSE ""]]

\* techniqueDetails is <<>> on a note that gets none
enhanceSingleNote(note, previousNote, nextNote) ==
    [string |-> note.string, stringIndex |-> note.stringIndex, fret |-> note.fret,
     techniques |-> note.techniques, position |-> note.position,
     techniqueDetails |->
        IF Len(note.techniques) > 0
        THEN getDetailedTechniques(note, previousNote, nextNote)
        ELSE <<>>]

enhanceNotes(notes) ==
    [i \in 1..Len(notes) |->
        LET currentNote == notes[i]
            previousNote == IF i > 1 THEN <<notes[i - 1]>> ELSE <<>>
            nextNote == IF i < Len(notes) THEN <<notes[i + 1]>> ELSE <<>>
        IN  [currentNote EXCEPT !.notes =
                [k \in 1..Len(currentNote.notes) |->
                    enhanceSingleNote(currentNote.notes[k], previousNote, nextNote)]]]

enhanceWithTechniques(sequences) ==
    [i \in 1..Len(sequences) |->
        [sequences[i] EXCEPT !.notes = enhanceNotes(sequences[i].notes)]]

(***************************************************************************)
(* OutputFormatter.  A text is the sequence of its lines (what split('\n') *)
(* gives), a line the sequence of the pieces it is concatenated from.      *)
(***************************************************************************)
\* string concatenation of two texts
Cat(a, b) ==
    SubSeq(a, 1, Len(a) - 1) \o <<a[Len(a)] \o b[1]>> \o Tail2(b, 2)

EmptyText == << <<>> >>

\* the text of one line followed by '\n'
LineNL(line) == <<line, <<>>>>

RECURSIVE DropLeadingBlank(_)
DropLeadingBlank(t) ==
    IF Len(t) > 1 /\ t[1] = <<>> THEN DropLeadingBlank(Tail(t)) ELSE t

RECURSIVE DropTrailingBlank(_)
DropTrailingBlank(t) ==
    IF Len(t) > 1 /\ t[Len(t)] = <<>> THEN DropTrailingBlank(SubSeq(t, 1, Len(t) - 1)) ELSE t

\* String.prototype.trim / trimEnd on a text whose lines neither start nor
\* end with white space
TrimText(t) == DropLeadingBlank(DropTrailingBlank(t))

TrimEndText(t) == DropTrailingBlank(t)

RECURSIVE Join(_, _)
Join(items, sep) ==
    IF items = <<>> THEN <<>>
    ELSE IF Len(items) = 1 THEN items[1]
    ELSE items[1] \o <<sep>> \o Join(Tail(items), sep)

\* getOrdinalSuffix without the tests of 11, 12 and 13
getOrdinalSuffixByLastDigit(num) ==
    LET j == num % 10
    IN  IF j = 1 THEN "st"
        ELSE IF j = 2 THEN "nd"
        ELSE IF j = 3 THEN "rd"
        ELSE "th"

getOrdinalSuffix(num) ==
    LET j == num % 10
        k == num % 100
    IN  IF j = 1 /\ k # 11 THEN "st"
        ELSE IF j = 2 /\ k # 12 THEN "nd"
        ELSE IF j = 3 /\ k # 13 THEN "rd"
        ELSE "th"

names6 == <<"high E", "B", "G", "D", "A", "low E">>

names7 == <<"high E", "B", "G", "D", "A", "E", "low B">>

names8 == <<"high E", "B", "G", "D", "A", "E", "B", "F#">>

\* getStringName that takes the names of six strings whatever the count
getStringNameOfSix(index, totalStrings) ==
    IF index + 1 \in DOMAIN names6 THEN names6[index + 1]
    ELSE "String " \o ToString(index + 1)

getStringName(index, totalStrings) ==
    LET names == CASE totalStrings = 7 -> names7
                   [] totalStrings = 8 -> names8
                   [] OTHER -> names6
    IN  IF index + 1 \in DOMAIN names THEN names[index + 1]
        ELSE "String " \o ToString(index + 1)

ChordStringLine(chord, i, settings) ==
    LET stringName == IF settings.useStringNames
                      THEN getStringName(i, Len(chord.frets))
                      ELSE "String " \o ToString(i + 1)
        fret == chord.frets[i + 1]
    IN  IF fret = Mute THEN <<"- ", stringName, ": muted">>
        ELSE IF fret = 0 THEN <<"- ", stringName, ": open">>
        ELSE <<"- ", stringName, ": ", ToString(fret), getOrdinalSuffix(fret), " fret">>

RECURSIVE ChordStringLines(_, _, _)
ChordStringLines(chord, i, settings) ==
    IF i >= Len(chord.frets) THEN EmptyText
    ELSE Cat(LineNL(ChordStringLine(chord, i, settings)),
             ChordStringLines(chord, i + 1, settings))

ChordBlock(chord, settings) ==
    Cat(Cat(LineNL(chord.name \o <<" chord (", ToString(Len(chord.frets)), "-string):">>),
            ChordStringLines(chord, 0, settings)),
        LineNL(<<>>))

RECURSIVE ChordBlocks(_, _)
ChordBlocks(chordList, settings) ==
    IF chordList = <<>> THEN EmptyText
    ELSE Cat(ChordBlock(Head(chordList), settings), ChordBlocks(Tail(chordList), settings))

formatChordChart(chordList, settings) ==
    TrimText(Cat(<<<<"Chord Chart:">>, <<>>, <<>>>>, ChordBlocks(chordList, settings)))

STRING_NUMBERS == <<"1st", "2nd", "3rd", "4th", "5th", "6th">>

\* STRING_NUMBERS_8 of the constants file, which the formatter does not import
STRING_NUMBERS_8 == <<"1st", "2nd", "3rd", "4th", "5th", "6th", "7th", "8th">>

\* STRING_NUMBERS[note.stringIndex]; an index past the table reads undefined
StringNumberOf(stringIndex) ==
    IF stringIndex + 1 \in DOMAIN STRING_NUMBERS THEN STRING_NUMBERS[stringIndex + 1]
    ELSE "undefined"

FretWords(fret, mutedWord, lead) ==
    IF fret = Mute THEN <<mutedWord>>
    ELSE <<lead, ToString(fret), getOrdinalSuffix(fret), " fret">>

\* t.context || t.name, then filter(Boolean)
TechniqueDescs(note) ==
    LET descs == [k \in 1..Len(note.techniqueDetails) |->
                     IF note.techniqueDetails[k].context # ""
                     THEN note.techniqueDetails[k].context
                     ELSE note.techniqueDetails[k].name]
    IN  SelectSeq(descs, LAMBDA d : d # "")

Singletons(items) == [k \in 1..Len(items) |-> <<items[k]>>]

\* formatNote: the line it returns, without the closing '\n'
formatNote(note, settings) ==
    <<"- ">>
    \o (IF settings.useStringNames THEN <<note.string, " string">>
        ELSE <<"String ", ToString(note.stringIndex + 1)>>)
    \o FretWords(note.fret, ", muted", ", ")
    \o (IF settings.includeTechniqueDetails /\ Len(note.techniques) > 0
        THEN IF settings.verboseMode
             THEN <<" (">> \o Join(Singletons(TechniqueDescs(note)), ", ") \o <<")">>
             ELSE <<" ">> \o Join(Singletons(note.techniques), "+")
        ELSE <<>>)

\* notes.flatMap(n => n.techniques).filter((v, i, a) => a.indexOf(v) === i)
RECURSIVE FlatTechniques(_)
FlatTechniques(notes) ==
    IF notes = <<>> THEN <<>> ELSE Head(notes).techniques \o FlatTechniques(Tail(notes))

Unique(items) ==
    LET keep == {i \in 1..Len(items) : \A j \in 1..(i - 1) : items[j] # items[i]}
        F[i \in 0..Len(items)] ==
            IF i = 0 THEN <<>>
            ELSE IF i \in keep THEN Append(F[i - 1], items[i]) ELSE F[i - 1]
    IN  F[Len(items)]

ChordNoteDesc(note, settings) ==
    (IF settings.useStringNames THEN <<note.string, " string">>
     ELSE <<StringNumberOf(note.stringIndex), " string">>)
    \o FretWords(note.fret, " muted", " ")

\* formatChord: the line it returns, without the closing '\n'
formatChord(notes, settings) ==
    LET sorted == SortByStringIndex(notes)
        allTechniques == Unique(FlatTechniques(notes))
    IN  <<"- Chord: ">>
        \o (IF settings.verboseMode
            THEN Join([k \in 1..Len(notes) |-> ChordNoteDesc(notes[k], settings)], ", ")
            ELSE <<"(">>
                 \o Join([k \in 1..Len(sorted) |->
                            IF sorted[k].fret = Mute THEN <<"x">>
                            ELSE <<ToString(sorted[k].fret)>>], "-")
                 \o <<")">>)
        \o (IF settings.includeTechniqueDetails /\ Len(allTechniques) > 0
            THEN <<" with ">> \o Join(Singletons(allTechniques), ", ")
            ELSE <<>>)

\* [...new Set(sequence.notes.filter(n => n.annotation).map(n => n.annotation))]
getSequenceAnnotations(sequence) ==
    Unique(SelectSeq([k \in 1..Len(sequence.notes) |-> sequence.notes[k].annotation],
                     LAMBDA a : a # <<>>))

RECURSIVE NoteLines(_, _)
NoteLines(notes, settings) ==
    IF notes = <<>> THEN EmptyText
    ELSE Cat(LineNL(formatNote(Head(notes), settings)), NoteLines(Tail(notes), settings))

\* the body of the loop of formatSequence over the note groups, applied to
\* the output built so far
RECURSIVE NoteGroupLoop(_, _, _)
NoteGroupLoop(output, noteGroups, settings) ==
    IF noteGroups = <<>> THEN output
    ELSE LET noteGroup == Head(noteGroups)
             added == IF noteGroup.isChord /\ Len(noteGroup.notes) > 1
                      THEN Cat(output, LineNL(formatChord(noteGroup.notes, settings)))
                      ELSE Cat(output, NoteLines(noteGroup.notes, settings))
             annotated == IF settings.includeTiming /\ noteGroup.annotation # <<>>
                          THEN Cat(TrimEndText(added),
                                   LineNL(<<" [">> \o noteGroup.annotation \o <<"]">>))
                          ELSE added
         IN  NoteGroupLoop(annotated, Tail(noteGroups), settings)

\* formatSequence that puts the annotations in the header whatever
\* includeTiming is
formatSequenceWithSuffix(sequence, settings) ==
    LET sectionAnnotations == getSequenceAnnotations(sequence)
        header == IF Len(sectionAnnotations) > 0
                  THEN <<"Section ", ToString(sequence.section), " (">>
                       \o Join(sectionAnnotations, ", ") \o <<"):">>
                  ELSE <<"Section ", ToString(sequence.section), ":">>
    IN  NoteGroupLoop(LineNL(header), sequence.notes, settings)

formatSequence(sequence, settings) ==
    LET sectionAnnotations == getSequenceAnnotations(sequence)
        header == IF settings.includeTiming /\ Len(sectionAnnotations) > 0
                  THEN <<"Section ", ToString(sequence.section), " (">>
                       \o Join(sectionAnnotations, ", ") \o <<"):">>
                  ELSE <<"Section ", ToString(sequence.section), ":">>
    IN  NoteGroupLoop(LineNL(header), sequence.notes, settings)

\* the distinct texts of one category, in input order, joined by ', '
CategoryTexts(annotations, category) ==
    Join(Unique([k \in 1..Len(SelectSeq(annotations, LAMBDA a : a.category = category)) |->
                    SelectSeq(annotations, LAMBDA a : a.category = category)[k].text]), ", ")

HasCategory(annotations, category) ==
    \E k \in 1..Len(annotations) : annotations[k].category = category

\* summarizeAnnotations: EmptyText is the '' of the source
summarizeAnnotations(annotations) ==
    IF Len(annotations) = 0 THEN EmptyText
    ELSE LET s0 == LineNL(<<"Tab Information:">>)
             s1 == IF HasCategory(annotations, "section")
                   THEN Cat(s0, <<<<"- Sections: ">> \o CategoryTexts(annotations, "section")>>)
                   ELSE s0
             s2 == IF HasCategory(annotations, "timing")
                   THEN Cat(s1, <<<<>>, <<"- Timing: ">> \o CategoryTexts(annotations, "timing")>>)
                   ELSE s1
             s3 == IF HasCategory(annotations, "chords")
                   THEN Cat(s2, <<<<>>, <<"- Chord progression: ">>
                                         \o CategoryTexts(annotations, "chords")>>)
                   ELSE s2
             s4 == IF HasCategory(annotations, "instruction")
                   THEN Cat(s3, <<<<>>, <<"- Instructions: ">>
                                         \o CategoryTexts(annotations, "instruction")>>)
                   ELSE s3
         IN  IF HasCategory(annotations, "lyrics")
             THEN Cat(s4, <<<<>>, <<"- Contains lyrics">>>>)
             ELSE s4

RECURSIVE SequenceTexts(_, _)
SequenceTexts(sequences, settings) ==
    IF sequences = <<>> THEN EmptyText
    ELSE Cat(Cat(formatSequence(Head(sequences), settings), LineNL(<<>>)),
             SequenceTexts(Tail(sequences), settings))

NoNotesText ==
    <<<<"No notes found in the tab. Please make sure your tab is properly formatted.">>>>

formatTablature(data, settings) ==
    LET annotationSummary == summarizeAnnotations(data.annotations)
    IN  IF Len(data.sequences) = 0 THEN NoNotesText
        ELSE TrimText(Cat(IF annotationSummary # EmptyText /\ settings.includeTiming
                          THEN Cat(annotationSummary, <<<<>>, <<>>, <<>>>>)
                          ELSE EmptyText,
                          SequenceTexts(data.sequences, settings)))

(***************************************************************************)
(* validateSettings and TabConverter.convert                               *)
(***************************************************************************)
SettingKeys == {"includeTiming", "verboseMode", "useStringNames", "includeTechniqueDetails"}

\* validateSettings without the test typeof settings[key] === 'boolean':
\* every value the object has for a key is taken, read as true or not
validateSettingsUntyped(settings) ==
    LET given == IF settings.kind = "undefined"
                 THEN [kind |-> "object", fields |-> <<>>]
                 ELSE settings
    IN  [key \in SettingKeys |->
            IF given.kind = "object" /\ key \in DOMAIN given.fields
            THEN given.fields[key] = "true"
            ELSE TRUE]

\* A settings argument is [kind, fields]: kind is the typeof of the value
\* ("undefined" for a missing argument, "null" for null), fields maps the
\* keys the object has to "true", "false" or a non-boolean value.
validateSettings(settings) ==
    \* a missing argument takes the default {} of convert's signature
    LET given == IF settings.kind = "undefined"
                 THEN [kind |-> "object", fields |-> <<>>]
                 ELSE settings
    IN  [key \in SettingKeys |->
            IF given.kind = "object"
               /\ key \in DOMAIN given.fields
               /\ given.fields[key] \in {"true", "false"}
            THEN given.fields[key] = "true"
            ELSE TRUE]

EmptyInputMessage == "Please enter a guitar tab to convert."

NoValidFormatMessage ==
    "No valid tab format detected. Please check that your tab is in the correct format."

NoValidChordsMessage == "No valid chords found in chord chart."

NoNotesFoundMessage ==
    "No notes found in the tab. Please make sure your tab is properly formatted."

UnsupportedFormatMessage == "Unsupported tab format"

\* the catch of convert: throw new Error(`Error converting tab: ${error.message}`)
Wrapped(message) == "Error converting tab: " \o message

NoData == [sequences |-> <<>>, annotations |-> <<>>, tabLineGroups |-> <<>>]

Thrown(message) == [thrown |-> TRUE, message |-> message, output |-> EmptyText]

Returned(output) == [thrown |-> FALSE, message |-> "", output |-> output]

\* convertChordChart that asks for more than one chord: chords.length <= 1
ChordChartOutcomeNeedingTwo(parsed, settings) ==
    [chords |-> parsed, tabData |-> NoData,
     result |-> IF Len(parsed) <= 1
                THEN Thrown(Wrapped(NoValidChordsMessage))
                ELSE Returned(formatChordChart(parsed, settings))]

\* convertChordChart after the chords are parsed: what the call leaves
\* behind (the chords) and how it ends
ChordChartOutcome(parsed, settings) ==
    [chords |-> parsed, tabData |-> NoData,
     result |-> IF Len(parsed) = 0
                THEN Thrown(Wrapped(NoValidChordsMessage))
                ELSE Returned(formatChordChart(parsed, settings))]

convertChordChart(text, settings) ==
    ChordChartOutcome(parseChordChart(NonBlankLines(text)), settings)

\* the end of convertTablature: tabData.sequences is replaced by the
\* enhanced sequences and the data is formatted
FormattedOutcome(enhanced, settings) ==
    [chords |-> <<>>, tabData |-> enhanced,
     result |-> Returned(formatTablature(enhanced, settings))]

\* convertTablature that fails as soon as one group gave no Sequence
TablatureOutcomeNeedingAll(data, settings) ==
    IF Len(data.sequences) < Len(data.tabLineGroups) \/ Len(data.sequences) = 0
    THEN [chords |-> <<>>, tabData |-> data,
          result |-> Thrown(Wrapped(NoNotesFoundMessage))]
    ELSE FormattedOutcome([data EXCEPT !.sequences = enhanceWithTechniques(data.sequences)],
                          settings)

\* convertTablature after parser.parse(lines)
TablatureOutcome(data, settings) ==
    IF Len(data.sequences) = 0
    THEN [chords |-> <<>>, tabData |-> data,
          result |-> Thrown(Wrapped(NoNotesFoundMessage))]
    ELSE FormattedOutcome([data EXCEPT !.sequences = enhanceWithTechniques(data.sequences)],
                          settings)

\* convertTablature: the same parser serves both tablature formats
convertTablature(text, settings, format) ==
    TablatureOutcome(parse(NonBlankLines(text)), settings)

\* !tabText || typeof tabText !== 'string'
IsRejectedInput(input) == input.kind # "string" \/ input.text = <<>>

\* the switch of convert without the case TAB_FORMATS.LABELED_TAB
DispatchWithoutLabeledCase(text, settings, format) ==
    CASE format = CHORD_CHART -> convertChordChart(text, settings)
      [] format = STANDARD_TAB -> convertTablature(text, settings, format)
      [] OTHER -> [chords |-> <<>>, tabData |-> NoData,
                   result |-> Thrown(Wrapped(UnsupportedFormatMessage))]

\* the switch of convert
Dispatch(text, settings, format) ==
    CASE format = CHORD_CHART -> convertChordChart(text, settings)
      [] format \in {STANDARD_TAB, LABELED_TAB} -> convertTablature(text, settings, format)
      [] OTHER -> [chords |-> <<>>, tabData |-> NoData,
                   result |-> Thrown(Wrapped(UnsupportedFormatMessage))]

WithFormat(format, done) ==
    [tabFormat |-> format, chords |-> done.chords,
     tabData |-> done.tabData, result |-> done.result]

\* convert without the test !tabFormat before the switch
ConvertDetectedUnchecked(text, validatedSettings, format) ==
    WithFormat(format, Dispatch(text, validatedSettings, format))

\* convert once the settings are validated and the format is detected
ConvertDetected(text, validatedSettings, format) ==
    IF format = NoFormat
    THEN [tabFormat |-> format, chords |-> <<>>, tabData |-> NoData,
          result |-> Thrown(NoValidFormatMessage)]
    ELSE WithFormat(format, Dispatch(text, validatedSettings, format))

\* no settings are validated for an input convert rejects
NoSettings == <<>>

\* the validatedSettings of convert, which the handlers pass to the formatter
SettingsUsed(input, settings) ==
    IF IsRejectedInput(input) THEN NoSettings ELSE validateSettings(settings)

\* convert: the format detected, the data parsed and the way the call ends
convert(input, settings) ==
    IF IsRejectedInput(input)
    THEN [tabFormat |-> NoFormat, chords |-> <<>>, tabData |-> NoData,
          result |-> Thrown(EmptyInputMessage)]
    ELSE ConvertDetected(input.text, validateSettings(settings), detectTabFormat(input.text))

(***************************************************************************)
(* Inputs: the texts and settings a call is made with                      *)
(***************************************************************************)
Str(chars) == [kind |-> "string", text |-> chars]

RECURSIVE JoinLines(_)
JoinLines(ls) ==
    IF ls = <<>> THEN <<>>
    ELSE IF Len(ls) = 1 THEN ls[1]
    ELSE ls[1] \o <<NL>> \o JoinLines(Tail(ls))

DigitChar(d) == CHOOSE c \in Digits : DigitVal(c) = d

RECURSIVE ToDigits(_)
ToDigits(n) == IF n < 10 THEN <<DigitChar(n)>> ELSE ToDigits(n \div 10) \o <<DigitChar(n % 10)>>

Repeat(x, n) == [i \in 1..n |-> x]

\* absent and blank arguments
AbsentInputs ==
    {[kind |-> k, text |-> <<>>] : k \in {"undefined", "null", "number", "object"}}

BlankTexts == { <<>>, <<" ">>, <<NL>>, <<" ", NL, " ">>, <<"\t", NL, NL>> }

GarbageTexts ==
    { <<"a", "s", "d", "f", NL, "q", "w", "e", "r">>,
      <<"a", "s", "d", "f">>,
      <<"h", "e", "l", "l", "o", " ", "w", "o", "r", "l", "d", NL, "f", "o", "o", NL, "b", "a", "r">> }

\* chord lines "Name: 1-...-tok-...-1": every token is 1 except one
MinTokens == 5

MaxTokens == 9

MaxTokenValue == 25

FretTokens == {ToDigits(n) : n \in 0..MaxTokenValue} \cup {<<"X">>, <<"x">>}

ChordNames == { <<"F">>, <<"B", "m", "7">> }

ChordLineOf(name, tokens) == name \o <<":", " ">> \o Join(tokens, "-")

SingleChordLines ==
    {ChordLineOf(name, [i \in 1..n |-> IF i = k THEN tok ELSE <<"1">>]) :
        name \in ChordNames, n \in MinTokens..MaxTokens, k \in {1, 3}, tok \in FretTokens}

\* charts of up to MaxChartLines lines, valid and invalid ones mixed
MaxChartLines == 3

ChartLinePool ==
    { <<"F", ":", " ", "1", "-", "3", "-", "3", "-", "2", "-", "1", "-", "1">>,
      <<"B", "m", "7", ":", " ", "X", "-", "2", "-", "0", "-", "2", "-", "0", "-", "2", "-", "X">>,
      <<"G", ":", " ", "3", "-", "2", "-", "0">>,
      <<"A", ":", " ", "1", "-", "1", "-", "1", "-", "1", "-", "1", "-", "3", "0">>,
      <<"i", "n", "t", "r", "o">> }

SeqsUpTo(pool, n) == UNION {[1..m -> pool] : m \in 1..n}

ChartTexts == {JoinLines(ls) : ls \in SeqsUpTo(ChartLinePool, MaxChartLines)}

\* labeled tablature: a label sequence, a separator and the contents of the
\* first three lines; the other lines are empty strings
LabelSeqs ==
    { <<"E", "B", "G", "D", "A", "E">>,
      <<"E", "B", "G", "D", "A", "E", "B">>,
      <<"e", "B", "G", "D", "A", "E">>,
      <<"E", "B", "G">>,
      <<"E", "B">> }

LabelSeparators == { <<":">>, <<"|">> }

ContentPool ==
    { <<"-", "-", "3", "-", "-">>,
      <<"-", "-", "0", "-", "-">>,
      <<"-", "1", "5", "-", "-">>,
      <<"-", "-", "-", "-", "-">>,
      <<"-", "5", "h", "7", "-">>,
      <<"-", "x", "h", "7", "-">>,
      <<"-", "-", "x", "-", "-">> }

ThirdContentPool == { <<"-", "-", "0", "-", "-">>, <<"-", "-", "-", "-", "-">> }

LabeledTexts ==
    {JoinLines([i \in 1..Len(labels) |->
        <<labels[i]>> \o sep \o (CASE i = 1 -> c1 [] i = 2 -> c2 [] i = 3 -> c3
                                 [] OTHER -> <<"-", "-", "-", "-", "-">>)]) :
        labels \in LabelSeqs, sep \in LabelSeparators,
        c1 \in ContentPool, c2 \in ContentPool, c3 \in ThirdContentPool}

\* standard tablature: MinTabLines..MaxTabLines lines framed by bars
MinTabLines == 2

MaxTabLines == 8

StandardPool ==
    { <<"|", "-", "-", "3", "-", "-", "|">>,
      <<"|", "-", "1", "5", "-", "-", "|">>,
      <<"|", "-", "-", "-", "-", "-", "|">>,
      <<"|", "-", "5", "h", "7", "-", "|">>,
      <<"|", "-", "-", "0", "-", "-", "|">> }

EmptyStandardLine == <<"|", "-", "-", "-", "-", "-", "|">>

StandardTexts ==
    {JoinLines([i \in 1..n |-> CASE i = 1 -> c1 [] i = 2 -> c2 [] OTHER -> EmptyStandardLine]) :
        n \in MinTabLines..MaxTabLines, c1 \in StandardPool, c2 \in StandardPool}

\* a pull-off or a slide with a note right after it, with nothing after
\* it, with a muted note after it and with a later note on its string
TechniqueContentPool ==
    { <<"-", "5", "p", "3", "-", "-", "-">>,
      <<"-", "5", "p", "-", "-", "-", "-">>,
      <<"-", "5", "p", "x", "-", "-", "-">>,
      <<"-", "5", "p", "-", "-", "3", "-">>,
      <<"-", "5", "/", "7", "-", "-", "-">>,
      <<"-", "7", "\\", "5", "-", "-", "-">>,
      <<"-", "5", "/", "-", "-", "7", "-">>,
      <<"-", "5", "/", "x", "-", "-", "-">>,
      <<"-", "7", "\\", "-", "-", "-", "-">>,
      <<"-", "5", "h", "7", "p", "5", "-">> }

\* the second string is empty or holds a note between the two columns
TechniqueTexts ==
    {JoinLines(<< <<"|">> \o c1 \o <<"|">>, <<"|">> \o c2 \o <<"|">>,
                 <<"|", "-", "-", "-", "-", "-", "-", "-", "|">> >>) :
        c1 \in TechniqueContentPool,
        c2 \in { <<"-", "-", "-", "-", "-", "-", "-">>, <<"-", "-", "-", "-", "0", "-", "-">> }}

\* lines of free text, some of which match several rules of the categories
AnnotationLinePool ==
    { <<"I", "V", " ", "-", " ", "\"", "l", "a", "\"", " ", "3", ":", "4">>,
      <<"\"", "l", "a", "\"", " ", "3", ":", "4", " ", "x", "2">>,
      <<"3", ":", "4", " ", "x", "2">>,
      <<"C", " ", "G", " ", "r", "e", "p", "e", "a", "t">>,
      <<"A", "m", " ", "G">>,
      <<"\"", "h", "e", "l", "l", "o", "\"">>,
      <<" ", " ", "V", "e", "r", "s", "e", " ", "2">> }

\* a block of three lines under a line of free text
AnnotationTexts ==
    {JoinLines(<<sepLine, c1, EmptyStandardLine, EmptyStandardLine>>) :
        sepLine \in AnnotationLinePool, c1 \in StandardPool}

\* two blocks of three lines with one line between them
BlockSeparators == { <<>>, <<"V", "e", "r", "s", "e", " ", "1">>, <<"I", " ", "-", " ", "I", "n", "t", "r", "o">> }

BlockOf(first, rest) == <<first, rest, rest>>

TwoBlockTexts ==
    {JoinLines(BlockOf(c1, EmptyStandardLine) \o <<sepLine>> \o BlockOf(c2, EmptyStandardLine)) :
        c1 \in StandardPool, c2 \in StandardPool, sepLine \in BlockSeparators}
    \cup
    {JoinLines(BlockOf(<<"B", "|">> \o c1, <<"G", "|", "-", "-", "-", "-", "-">>) \o <<sepLine>>
               \o BlockOf(<<"B", "|">> \o c2, <<"G", "|", "-", "-", "-", "-", "-">>)) :
        c1 \in ContentPool, c2 \in ContentPool, sepLine \in BlockSeparators}

\* a free-text line with a letter and a colon inside, before three and
\* before two labeled lines
ScenarioNoteLineInTab ==
    JoinLines(<<
        <<"N", "o", "t", "e", ":", " ", "p", "l", "a", "y", " ", "1", "-", "2">>,
        <<"E", "|", "-", "-", "3", "-", "-", "|">>,
        <<"B", "|", "-", "-", "0", "-", "-", "|">>,
        <<"G", "|", "-", "-", "-", "-", "-", "|">> >>)

ScenarioNoteLineAndTwoLabeled ==
    JoinLines(<<
        <<"N", "o", "t", "e", ":", " ", "p", "l", "a", "y", " ", "1", "-", "2">>,
        <<"E", "|", "-", "-", "3", "-", "-", "|">>,
        <<"B", "|", "-", "-", "0", "-", "-", "|">> >>)

\* notes at the columns 3, 6 and 13 under two lines of free text, the
\* second line at column 0 and at column 13
ScenarioTwoAnnotations ==
    JoinLines(<<
        <<"V", "e", "r", "s", "e", " ", "1">>,
        <<"C", "h", "o", "r", "u", "s">>,
        <<"|", "-", "-", "3", "-", "-", "5", "-", "-", "-", "-", "-", "-", "7", "-", "-", "|">>,
        <<"|", "-", "-", "-", "-", "-", "-", "-", "-", "-", "-", "-", "-", "-", "-", "-", "|">>,
        <<"|", "-", "-", "-", "-", "-", "-", "-", "-", "-", "-", "-", "-", "-", "-", "-", "|">> >>)

ScenarioIndentedAnnotation ==
    JoinLines(<<
        <<"V", "e", "r", "s", "e", " ", "1">>,
        <<" ", " ", " ", " ", " ", " ", " ", " ", " ", " ", " ", " ", " ", "S", "o", "l", "o">>,
        <<"|", "-", "-", "3", "-", "-", "5", "-", "-", "-", "-", "-", "-", "7", "-", "-", "|">>,
        <<"|", "-", "-", "-", "-", "-", "-", "-", "-", "-", "-", "-", "-", "-", "-", "-", "|">>,
        <<"|", "-", "-", "-", "-", "-", "-", "-", "-", "-", "-", "-", "-", "-", "-", "-", "|">> >>)

\* three labeled lines from the G string up to the high e string
ScenarioLabelsLowToHigh ==
    JoinLines(<<
        <<"G", "|", "-", "-", "3", "-", "-", "|">>,
        <<"B", "|", "-", "-", "0", "-", "2", "|">>,
        <<"e", "|", "-", "-", "1", "-", "-", "|">> >>)

\* three standard lines that do not follow each other, around a labeled
\* block of three lines
ScenarioScatteredStandardLines ==
    JoinLines(<<
        <<"|", "-", "-", "1", "-", "-", "|">>,
        <<"E", "|", "-", "-", "3", "-", "-", "|">>,
        <<"B", "|", "-", "-", "0", "-", "-", "|">>,
        <<"G", "|", "-", "-", "-", "-", "-", "|">>,
        <<"|", "-", "-", "2", "-", "-", "|">>,
        <<"V", "e", "r", "s", "e">>,
        <<"|", "-", "-", "-", "-", "-", "|">> >>)

\* a block of three indented standard lines before a labeled block
ScenarioIndentedStandardBlock ==
    JoinLines(<<
        <<" ", "|", "-", "-", "1", "-", "-", "|">>,
        <<" ", "|", "-", "-", "-", "-", "-", "|">>,
        <<" ", "|", "-", "-", "-", "-", "-", "|">>,
        <<"E", "|", "-", "-", "3", "-", "-", "|">>,
        <<"B", "|", "-", "-", "0", "-", "-", "|">>,
        <<"G", "|", "-", "-", "-", "-", "-", "|">> >>)

\* eight standard lines with a chord on the 7th and the 8th string
ScenarioLowStringsChord ==
    JoinLines(<<
        <<"|", "-", "-", "-", "-", "-", "|">>,
        <<"|", "-", "-", "-", "-", "-", "|">>,
        <<"|", "-", "-", "-", "-", "-", "|">>,
        <<"|", "-", "-", "-", "-", "-", "|">>,
        <<"|", "-", "-", "-", "-", "-", "|">>,
        <<"|", "-", "-", "-", "-", "-", "|">>,
        <<"|", "-", "-", "5", "-", "-", "|">>,
        <<"|", "-", "-", "7", "-", "-", "|">> >>)

\* two standard blocks of six lines with one blank line between them
ScenarioTwoStandardBlocks ==
    JoinLines(<<
        <<"|", "-", "-", "3", "-", "-", "|">>,
        <<"|", "-", "-", "0", "-", "-", "|">>,
        <<"|", "-", "-", "-", "-", "-", "|">>,
        <<"|", "-", "-", "-", "-", "-", "|">>,
        <<"|", "-", "-", "-", "-", "-", "|">>,
        <<"|", "-", "-", "-", "-", "-", "|">>,
        <<>>,
        <<"|", "-", "-", "5", "-", "-", "|">>,
        <<"|", "-", "-", "-", "-", "-", "|">>,
        <<"|", "-", "-", "-", "-", "-", "|">>,
        <<"|", "-", "-", "-", "-", "-", "|">>,
        <<"|", "-", "-", "-", "-", "-", "|">>,
        <<"|", "-", "-", "7", "-", "-", "|">> >>)

\* two labeled blocks of six lines with one blank line between them
ScenarioTwoLabeledBlocks ==
    JoinLines(<<
        <<"E", "|", "-", "-", "3", "-", "-", "|">>,
        <<"B", "|", "-", "-", "0", "-", "-", "|">>,
        <<"G", "|", "-", "-", "0", "-", "-", "|">>,
        <<"D", "|", "-", "-", "-", "-", "-", "|">>,
        <<"A", "|", "-", "-", "-", "-", "-", "|">>,
        <<"E", "|", "-", "-", "-", "-", "-", "|">>,
        <<>>,
        <<"E", "|", "-", "-", "5", "-", "-", "|">>,
        <<"B", "|", "-", "-", "-", "-", "-", "|">>,
        <<"G", "|", "-", "-", "-", "-", "-", "|">>,
        <<"D", "|", "-", "-", "-", "-", "-", "|">>,
        <<"A", "|", "-", "-", "-", "-", "-", "|">>,
        <<"E", "|", "-", "-", "-", "-", "-", "|">> >>)

\* six lines "|------|": tablature without a note
ScenarioNoNotes == JoinLines([i \in 1..6 |-> <<"|", "-", "-", "-", "-", "-", "-", "|">>])

\* the "Complex 8-String Tab with Techniques" of test-7-8-string-tabs.md
ScenarioEightStringLabeled ==
    JoinLines(<<
        <<"e", ":", "|", "-", "-", "1", "2", "h", "1", "5", "p", "1", "2", "-", "-", "-", "-", "1", "2", "~", "-", "-", "-", "1", "5", "b", "1", "7", "r", "1", "5", "-", "-", "-", "|">>,
        <<"B", ":", "|", "-", "-", "-", "-", "-", "-", "-", "-", "-", "-", "1", "3", "-", "-", "-", "-", "-", "-", "-", "-", "-", "-", "-", "-", "-", "-", "-", "-", "-", "-", "-", "-", "|">>,
        <<"G", ":", "|", "-", "-", "-", "-", "-", "-", "-", "-", "1", "2", "-", "-", "-", "-", "1", "2", "-", "-", "-", "-", "-", "-", "-", "-", "-", "-", "-", "-", "-", "-", "-", "-", "|">>,
        <<"D", ":", "|", "-", "-", "-", "-", "-", "-", "-", "-", "-", "-", "-", "-", "-", "-", "-", "-", "-", "-", "-", "-", "-", "-", "-", "-", "-", "-", "-", "-", "-", "-", "-", "-", "|">>,
        <<"A", ":", "|", "-", "-", "1", "0", "-", "-", "-", "-", "-", "-", "-", "-", "-", "-", "-", "-", "-", "-", "-", "-", "-", "-", "-", "-", "-", "-", "-", "-", "-", "-", "-", "-", "|">>,
        <<"E", ":", "|", "-", "-", "-", "-", "-", "-", "-", "-", "-", "-", "-", "-", "-", "-", "-", "-", "-", "-", "-", "-", "-", "-", "-", "-", "-", "-", "-", "-", "-", "-", "-", "-", "|">>,
        <<"B", ":", "|", "-", "-", "-", "-", "-", "-", "-", "-", "-", "-", "-", "-", "-", "-", "-", "-", "-", "-", "-", "-", "-", "-", "-", "-", "-", "-", "-", "-", "-", "-", "-", "-", "|">>,
        <<"F", "#", ":", "|", "-", "-", "8", "-", "-", "-", "-", "-", "-", "-", "-", "-", "-", "-", "-", "-", "-", "-", "-", "-", "-", "-", "-", "-", "-", "-", "-", "-", "-", "-", "-", "-", "|">> >>)

\* the "8-String Guitar Tab Example" of test-7-8-string-tabs.md
ScenarioEightStringStandard ==
    JoinLines(<<
        <<"|", "-", "-", "-", "-", "-", "-", "1", "2", "-", "-", "-", "-", "-", "-", "1", "0", "-", "-", "-", "-", "-", "-", "8", "-", "-", "-", "-", "-", "-", "-", "|">>,
        <<"|", "-", "-", "-", "-", "1", "0", "-", "-", "-", "-", "-", "-", "8", "-", "-", "-", "-", "-", "-", "6", "-", "-", "-", "-", "-", "-", "-", "-", "-", "-", "|">>,
        <<"|", "-", "-", "9", "-", "-", "-", "-", "-", "-", "7", "-", "-", "-", "-", "-", "-", "5", "-", "-", "-", "-", "-", "-", "-", "-", "-", "-", "-", "-", "-", "|">>,
        <<"|", "-", "-", "-", "-", "-", "-", "-", "-", "-", "-", "-", "-", "-", "-", "-", "-", "-", "-", "-", "-", "-", "-", "-", "-", "-", "-", "-", "-", "-", "-", "|">>,
        <<"|", "-", "-", "-", "-", "-", "-", "-", "-", "-", "-", "-", "-", "-", "-", "-", "-", "-", "-", "-", "-", "-", "-", "-", "-", "-", "-", "-", "-", "-", "-", "|">>,
        <<"|", "-", "-", "7", "-", "-", "-", "-", "-", "-", "-", "-", "-", "-", "-", "-", "-", "-", "-", "-", "-", "-", "-", "-", "-", "-", "-", "-", "-", "-", "-", "|">>,
        <<"|", "-", "-", "-", "-", "-", "-", "-", "-", "-", "-", "-", "-", "-", "-", "-", "-", "-", "-", "-", "-", "-", "-", "-", "-", "-", "-", "-", "-", "-", "-", "|">>,
        <<"|", "-", "-", "5", "-", "-", "-", "-", "-", "-", "-", "-", "-", "-", "-", "-", "-", "-", "-", "-", "-", "-", "-", "-", "-", "-", "-", "-", "-", "-", "-", "|">> >>)

Texts ==
    BlankTexts \cup GarbageTexts \cup SingleChordLines \cup ChartTexts
    \cup LabeledTexts \cup StandardTexts \cup TwoBlockTexts \cup TechniqueTexts
    \cup AnnotationTexts
    \cup {ScenarioNoNotes, ScenarioEightStringLabeled, ScenarioEightStringStandard,
          ScenarioTwoLabeledBlocks, ScenarioTwoStandardBlocks,
          ScenarioNoteLineInTab, ScenarioNoteLineAndTwoLabeled,
          ScenarioTwoAnnotations, ScenarioIndentedAnnotation, ScenarioLabelsLowToHigh,
          ScenarioScatteredStandardLines, ScenarioIndentedStandardBlock}

Inputs == AbsentInputs \cup {Str(t) : t \in Texts}

\* the texts that are converted under every settings object
VariedTexts ==
    {JoinLines(BlockOf(c1, EmptyStandardLine)) : c1 \in StandardPool}
    \cup {JoinLines(BlockOf(<<"B", "|">> \o c1, <<"G", "|", "-", "-", "-", "-", "-">>)) : c1 \in ContentPool}
    \cup {c \in ChartLinePool : IsChordLine(c)}
    \cup {ScenarioTwoAnnotations, ScenarioIndentedAnnotation, ScenarioLowStringsChord,
          ScenarioLabelsLowToHigh}
    \cup {JoinLines(<<sepLine, <<"|", "-", "-", "3", "-", "-", "|">>,
                       EmptyStandardLine, EmptyStandardLine>>) :
             sepLine \in AnnotationLinePool}

DefaultSettings == [kind |-> "undefined", fields |-> <<>>]

\* settings arguments that are no object, objects with a non-boolean value
\* and objects with a key validateSettings does not know
OddSettings ==
    { [kind |-> "null", fields |-> <<>>],
      [kind |-> "string", fields |-> <<>>],
      [kind |-> "object", fields |-> [key \in {"verboseMode"} |-> "yes"]],
      [kind |-> "object",
       fields |-> [key \in {"useStringNames", "colorScheme"} |->
                     IF key = "colorScheme" THEN "true" ELSE "false"]],
      [kind |-> "object",
       fields |-> [key \in {"includeTiming", "includeTechniqueDetails"} |->
                     IF key = "includeTiming" THEN "0" ELSE "false"]] }

SettingsPool ==
    { DefaultSettings,
      [kind |-> "object", fields |-> [key \in SettingKeys |-> "false"]],
      [kind |-> "object", fields |-> [key \in {"verboseMode"} |-> "false"]],
      [kind |-> "object", fields |-> [key \in {"useStringNames"} |-> "false"]] }
    \cup OddSettings

(***************************************************************************)
(* The TabConverter instance and the tables it shares                      *)
(***************************************************************************)
\* TECHNIQUES of the constants file
TECHNIQUES ==
    [c \in {"h", "p", "b", "r", "s", "/", "\\", "~", "t", "x", "^", "v"} |->
        CASE c = "h" -> "hammer-on"
          [] c = "p" -> "pull-off"
          [] c = "b" -> "bend"
          [] c = "r" -> "release"
          [] c = "s" -> "slide"
          [] c = "/" -> "slide up"
          [] c = "\\" -> "slide down"
          [] c = "~" -> "vibrato"
          [] c = "t" -> "tap"
          [] c = "x" -> "mute"
          [] c = "^" -> "bend"
          [] OTHER -> "whammy down and up"]

\* the arrays and the object of the constants file that the converter, its
\* parsers and its formatter import: one copy for every call
ConstantTables ==
    [STRING_NAMES |-> STRING_NAMES,
     STRING_NAMES_7 |-> STRING_NAMES_7,
     STRING_NAMES_8 |-> STRING_NAMES_8,
     STRING_NUMBERS |-> STRING_NUMBERS,
     TECHNIQUES |-> TECHNIQUES]

\* the data fields that the constructors of TabConverter and of
\* TechniqueParser set, each a reference to a table; ChordParser,
\* StandardTabParser and OutputFormatter have no field
NewConverter ==
    [stringNames |-> "STRING_NAMES",
     stringNumbers |-> "STRING_NUMBERS",
     techniques |-> "TECHNIQUES"]

\* getStringNamesForCount that pushes the extra names onto STRING_NAMES
AfterConvertPushingNames(conv, tabs) ==
    [converter |-> conv,
     tables |-> [tabs EXCEPT !.STRING_NAMES = Append(@, "B")]]

\* the instance and the tables after a call of convert: the call assigns
\* no field of this, of a parser or of the formatter, and it sorts and
\* pushes onto arrays that the call itself created (currentGroup, tabGroup,
\* names, notes, the filtered copy of formatChord)
AfterConvert(conv, tabs) == [converter |-> conv, tables |-> tabs]

(***************************************************************************)
(* The specification: one call of convert on a TabConverter                *)
(***************************************************************************)
\* every input is converted with the default settings, the texts of
\* VariedTexts with each settings object of the pool as well
Init ==
    /\ \/ tabText \in Inputs /\ settingsInput = DefaultSettings
       \/ tabText \in {Str(t) : t \in VariedTexts} /\ settingsInput \in SettingsPool
    /\ called = FALSE
    /\ tabFormat = NoFormat
    /\ chords = <<>>
    /\ tabData = NoData
    /\ result = Returned(EmptyText)
    /\ usedSettings = NoSettings
    /\ converter = NewConverter
    /\ tables = ConstantTables
    /\ calls = 0

\* this.converter.convert(input, settings)
Convert ==
    /\ ~called
    /\ \E done \in {convert(tabText, settingsInput)} :
          /\ tabFormat' = done.tabFormat
          /\ chords' = done.chords
          /\ tabData' = done.tabData
          /\ result' = done.result
    /\ usedSettings' = SettingsUsed(tabText, settingsInput)
    /\ converter' = AfterConvert(converter, tables).converter
    /\ tables' = AfterConvert(converter, tables).tables
    /\ calls' = 1
    /\ called' = TRUE
    /\ UNCHANGED <<tabText, settingsInput>>

Next == Convert

Spec == Init /\ [][Next]_vars

(***************************************************************************)
(* The specification: any number of calls of convert on one TabConverter   *)
(***************************************************************************)
\* the calls followed on one instance
MaxCalls == 3

\* the arguments of the calls
CallInputs == AbsentInputs \cup {Str(t) : t \in VariedTexts \cup GarbageTexts}

CallSettings ==
    { DefaultSettings,
      [kind |-> "object", fields |-> [key \in SettingKeys |-> "false"]],
      [kind |-> "object", fields |-> [key \in {"useStringNames"} |-> "false"]] }

\* what a call on the instance can give: the operators of this module read
\* the tables as the constants file has them, so they give the outcome when
\* the fields still refer to unchanged tables; on changed tables the outcome
\* is not known to be the one of this input
OutcomesOn(conv, tabs, input, settings) ==
    IF conv = NewConverter /\ tabs = ConstantTables
    THEN {convert(input, settings)}
    ELSE {convert(other, settings) : other \in CallInputs}

InitCalls ==
    /\ tabText \in CallInputs
    /\ settingsInput \in CallSettings
    /\ called = FALSE
    /\ tabFormat = NoFormat
    /\ chords = <<>>
    /\ tabData = NoData
    /\ result = Returned(EmptyText)
    /\ usedSettings = NoSettings
    /\ converter = NewConverter
    /\ tables = ConstantTables
    /\ calls = 0

\* a further this.converter.convert(input, settings) on the same instance;
\* convert is synchronous, so calls run one after the other in some order
ConvertAgain ==
    /\ called
    /\ calls < MaxCalls
    /\ \E input \in CallInputs, settings \in CallSettings :
          /\ tabText' = input
          /\ settingsInput' = settings
          /\ usedSettings' = SettingsUsed(input, settings)
          /\ \E done \in OutcomesOn(converter, tables, input, settings) :
                /\ tabFormat' = done.tabFormat
                /\ chords' = done.chords
                /\ tabData' = done.tabData
                /\ result' = done.result
    /\ converter' = AfterConvert(converter, tables).converter
    /\ tables' = AfterConvert(converter, tables).tables
    /\ calls' = calls + 1
    /\ UNCHANGED called

NextCalls == Convert \/ ConvertAgain

SpecCalls == InitCalls /\ [][NextCalls]_vars

(***************************************************************************)
(* Claims                                                                  *)
(***************************************************************************)
IsTablature == tabFormat \in {STANDARD_TAB, LABELED_TAB}

Converted == called /\ ~result.thrown

\* the Notes of a Sequence on one string whose column lies in lo..hi
NotesIn(sequence, stringIndex, lo, hi) ==
    {<<g, k>> \in (1..Len(sequence.notes)) \X (0..7) :
        /\ k + 1 \in 1..Len(sequence.notes[g].notes)
        /\ sequence.notes[g].notes[k + 1].stringIndex = stringIndex
        /\ sequence.notes[g].position \in lo..hi}

\* the 0-based columns at which a maximal digit run of a line starts
DigitRunStarts(content) ==
    {p \in 0..(Len(content) - 1) :
        content[p + 1] \in Digits /\ (p = 0 \/ content[p] \notin Digits)}

DigitRunLen(content, p) == RunLen(Tail2(content, p + 1), Digits)

HasOwnStringIndex(group, i) ==
    \A j \in 1..Len(group) : j # i => group[j].stringIndex # group[i].stringIndex

\* C1: in the column walk of a TabGroup every maximal digit run of a string
\* line gives exactly one Note, at the column where the run starts, whose
\* fret is the run read as a decimal number; the later digits of the run
\* give no further Note.
C1_OneNotePerDigitRun ==
    (Converted /\ IsTablature) =>
        \A s \in 1..Len(tabData.sequences) :
            LET sequence == tabData.sequences[s]
                group == tabData.tabLineGroups[sequence.section]
            IN  \A i \in 1..Len(group) :
                    HasOwnStringIndex(group, i) =>
                        \A p \in DigitRunStarts(group[i].content) :
                            LET len == DigitRunLen(group[i].content, p)
                                found == NotesIn(sequence, group[i].stringIndex, p, p + len - 1)
                            IN  /\ Cardinality(found) = 1
                                /\ \A n \in found :
                                      /\ sequence.notes[n[1]].position = p
                                      /\ sequence.notes[n[1]].notes[n[2] + 1].fret
                                            = DecVal(SubSeq(group[i].content, p + 1, p + len))

LabelLetter(stringLine) == Trim(stringLine.content)[1]

HasEarlierLabel(group, i, letters) ==
    \E j \in 1..Len(group) :
        /\ group[j].lineNumber < group[i].lineNumber
        /\ LabelLetter(group[j]) \in letters

\* the label letters of a group, in the order of its lines in the text
LabelsInLineOrder(group) ==
    LET at(n) == CHOOSE i \in 1..Len(group) :
                    Cardinality({j \in 1..Len(group) :
                                    group[j].lineNumber < group[i].lineNumber}) = n - 1
    IN  [n \in 1..Len(group) |-> LabelLetter(group[at(n)])]

\* C2: in a labeled TabGroup the first E-labeled line is the high E string
\* (stringIndex 0) and a later E-labeled line the low E string (stringIndex
\* 5); the first B-labeled line is B (stringIndex 1) and a later one low B
\* (stringIndex 6); a group labeled E,B,G,D,A,E,B gets the indices 0..6.
C2_LabelsResolvedByPosition ==
    (called /\ tabFormat = LABELED_TAB) =>
        \A g \in 1..Len(tabData.tabLineGroups) :
            LET group == tabData.tabLineGroups[g]
            IN  /\ \A i \in 1..Len(group) :
                      /\ LabelLetter(group[i]) \in {"E", "e"} =>
                            group[i].stringIndex
                               = (IF HasEarlierLabel(group, i, {"E", "e"}) THEN 5 ELSE 0)
                      /\ LabelLetter(group[i]) = "B" =>
                            group[i].stringIndex
                               = (IF HasEarlierLabel(group, i, {"B"}) THEN 6 ELSE 1)
                /\ LabelsInLineOrder(group) = <<"E", "B", "G", "D", "A", "E", "B">> =>
                      {group[i].stringIndex : i \in 1..Len(group)} = 0..6

\* the labeled tab of the scenario: E:--3-- B:--0-- G:--0-- D:----- A:----- E:-----
ScenarioLabeledTab ==
    JoinLines(<< <<"E", ":", "-", "-", "3", "-", "-">>,
                 <<"B", ":", "-", "-", "0", "-", "-">>,
                 <<"G", ":", "-", "-", "0", "-", "-">>,
                 <<"D", ":", "-", "-", "-", "-", "-">>,
                 <<"A", ":", "-", "-", "-", "-", "-">>,
                 <<"E", ":", "-", "-", "-", "-", "-">> >>)

HasNote(noteGroup, stringIndex, fret) ==
    \E k \in 1..Len(noteGroup.notes) :
        noteGroup.notes[k].stringIndex = stringIndex /\ noteGroup.notes[k].fret = fret

\* C3: the six-line labeled tab E:--3-- / B:--0-- / G:--0-- / D:----- /
\* A:----- / E:----- is converted as LabeledTab tablature (no chord chart, no
\* error) into one Sequence whose notes of the same column (fret 3 on high E,
\* fret 0 on B) form one chord NoteGroup.
C3_ScenarioIsLabeledTab ==
    (called /\ tabText = Str(ScenarioLabeledTab)) =>
        /\ tabFormat = LABELED_TAB
        /\ ~result.thrown
        /\ Len(tabData.sequences) = 1
        /\ \E g \in 1..Len(tabData.sequences[1].notes) :
              /\ tabData.sequences[1].notes[g].isChord
              /\ HasNote(tabData.sequences[1].notes[g], 0, 3)
              /\ HasNote(tabData.sequences[1].notes[g], 1, 0)

IsMuteToken(token) == token \in { <<"X">>, <<"x">> }

IsDigitToken(token) == token # <<>> /\ AllIn(token, Digits)

FretTokensOf(line) == Split(ChordLineMatch(line).fretString, "-")

\* a chord line "Name: f1-...-fN" with N in 6..8 whose tokens are X/x or
\* digit tokens; with upToMaxFret the digit tokens have a value up to 24
IsFullChordLine(line, upToMaxFret) ==
    /\ ChordLineMatch(line).ok
    /\ Len(FretTokensOf(line)) \in MinChordStrings..MaxChordStrings
    /\ \A i \in 1..Len(FretTokensOf(line)) :
          LET token == FretTokensOf(line)[i]
          IN  \/ IsMuteToken(token)
              \/ IsDigitToken(token) /\ (upToMaxFret => DecVal(token) <= MaxFretNumber)

ExpectedFrets(line) ==
    [i \in 1..Len(FretTokensOf(line)) |->
        IF IsMuteToken(FretTokensOf(line)[i]) THEN Mute ELSE DecVal(FretTokensOf(line)[i])]

\* the number of the lines 1..i of a chart that give a Chord
ChordsUpTo(lines, i) ==
    Cardinality({j \in 1..i : parseChordLine(Trim(lines[j])) # <<>>})

\* every full chord line of the converted text gives exactly one Chord, in
\* parseChordChart and in the chords convert keeps, with the frets expected
FullChordLinesGiveChords(upToMaxFret) ==
    (called /\ tabFormat = CHORD_CHART) =>
        LET lines == NonBlankLines(tabText.text)
        IN  \A i \in 1..Len(lines) :
                IsFullChordLine(Trim(lines[i]), upToMaxFret) =>
                    LET parsed == parseChordChart(<<lines[i]>>)
                        k == ChordsUpTo(lines, i)
                    IN  /\ Len(parsed) = 1
                        /\ Len(parsed[1].frets) = Len(FretTokensOf(Trim(lines[i])))
                        /\ parsed[1].frets = ExpectedFrets(Trim(lines[i]))
                        /\ \A n \in 1..Len(parsed[1].frets) :
                              parsed[1].frets[n] \in (0..MaxFretNumber) \cup {Mute}
                        /\ k \in 1..Len(chords)
                        /\ chords[k] = parsed[1]

\* C4 as stated: every chord line "Name: f1-...-fN" with N in {6,7,8} and
\* each fi a digit token or X gives exactly one Chord with N frets, X/x
\* muted, every fret an integer 0..24 or muted.
C4_EveryDigitToken == FullChordLinesGiveChords(FALSE)

\* C4: every chord line "Name: f1-...-fN" with N in {6,7,8} and each fi X/x
\* or a digit token of a value up to 24 gives exactly one Chord with N
\* frets, X/x muted, every fret an integer 0..24 or muted.
C4_TokensUpTo24 == FullChordLinesGiveChords(TRUE)

C4_Witness ==
    /\ called
    /\ Len(NonBlankLines(tabText.text)) = 1
    /\ IsFullChordLine(Trim(NonBlankLines(tabText.text)[1]), TRUE)
    /\ Len(chords) = 1
    /\ chords[1].stringCount = 7
    /\ \E n \in 1..7 : chords[1].frets[n] = MaxFretNumber

\* the format the rules of the detector give, tried in their order
FormatByRules(text) ==
    LET lines == NonBlankLines(text)
        chordLines == Cardinality({i \in 1..Len(lines) : IsChordLine(Trim(lines[i]))})
        unlabeled == Cardinality({i \in 1..Len(lines) : isStandardTabLine(lines[i])})
        labeled == Cardinality({i \in 1..Len(lines) : isTabLine(lines[i])})
    IN  IF 2 * chordLines > Len(lines) THEN CHORD_CHART
        ELSE IF unlabeled >= 3 THEN STANDARD_TAB
        ELSE IF labeled >= 3 THEN LABELED_TAB
        ELSE NoFormat

IsBlankInput(input) == input.kind # "string" \/ AllIn(input.text, Whitespace)

\* C6: convert fails with the EmptyInput error for every blank or absent
\* text: the empty string, a text of white space and newlines only, a
\* missing or non-string argument; no other error and no output comes of it.
C6_BlankInputIsEmptyInput ==
    (called /\ IsBlankInput(tabText)) => result = Thrown(EmptyInputMessage)

\* C7: when the detector returns None for a non-blank text convert fails
\* with NoValidFormat and returns no output, and convert fails with
\* NoValidFormat only when the detector returned None.
C7_NoValidFormatIffNone ==
    called =>
        /\ (~IsBlankInput(tabText) /\ detectTabFormat(tabText.text) = NoFormat)
              => result = Thrown(NoValidFormatMessage)
        /\ (result.thrown /\ result.message = NoValidFormatMessage)
              => /\ ~IsRejectedInput(tabText)
                 /\ detectTabFormat(tabText.text) = NoFormat
                 /\ tabFormat = NoFormat

C7_Witness ==
    /\ called
    /\ tabText = Str(<<"a", "s", "d", "f", NL, "q", "w", "e", "r">>)
    /\ result = Thrown(NoValidFormatMessage)

\* a note is read at a column that holds a digit or an x
GroupHasNote(group) ==
    \E i \in 1..Len(group) :
        \E p \in 1..Len(group[i].content) : group[i].content[p] \in Digits \cup {"x", "X"}

GroupsWithNotes == {g \in 1..Len(tabData.tabLineGroups) : GroupHasNote(tabData.tabLineGroups[g])}

IsSectionHeader(line) == Len(line) >= 1 /\ line[1] = "Section "

IsNoteLine(line) == Len(line) >= 1 /\ line[1] \in {"- ", "- Chord: "}

\* C8: for StandardTab and LabeledTab text every Sequence without a
\* NoteGroup is dropped, convert fails with NoNotesFound exactly when no
\* Sequence remains, and a successful result has no Section without a note
\* line.
C8_EmptySequencesDropped ==
    (called /\ IsTablature) =>
        /\ \A s \in 1..Len(tabData.sequences) : Len(tabData.sequences[s].notes) > 0
        /\ {tabData.sequences[s].section : s \in 1..Len(tabData.sequences)} = GroupsWithNotes
        /\ result.thrown <=> GroupsWithNotes = {}
        /\ result.thrown => result = Thrown(Wrapped(NoNotesFoundMessage))
        /\ tabText = Str(ScenarioNoNotes) => result.thrown
        /\ ~result.thrown =>
              \A n \in 1..Len(result.output) :
                  IsSectionHeader(result.output[n]) =>
                      /\ n < Len(result.output)
                      /\ IsNoteLine(result.output[n + 1])

\* a tab of two groups of which one has no note: its Sequence is dropped
C8_Witness ==
    /\ called
    /\ IsTablature
    /\ ~result.thrown
    /\ Len(tabData.tabLineGroups) = 2
    /\ Len(tabData.sequences) = 1
    /\ \E n \in 1..Len(result.output) : IsSectionHeader(result.output[n])

IsBlockHeader(line) == \E n \in 1..Len(line) : line[n] = " chord ("

ValidChordLines(lines) ==
    SelectSeq(lines, LAMBDA l : parseChordLine(Trim(l)) # <<>>)

BlockHeaderOf(line) ==
    ChordLineMatch(Trim(line)).name
    \o <<" chord (", ToString(Len(FretTokensOf(Trim(line)))), "-string):">>

\* C9: for ChordChart text convert fails with NoValidChords exactly when no
\* line parses into a valid Chord; otherwise the chart returned has one
\* block for each valid chord line, in input order, and none for the others.
C9_NoValidChordsIffNoneParses ==
    (called /\ tabFormat = CHORD_CHART) =>
        LET valid == ValidChordLines(NonBlankLines(tabText.text))
        IN  /\ result.thrown <=> Len(valid) = 0
            /\ result.thrown => result = Thrown(Wrapped(NoValidChordsMessage))
            /\ Len(chords) = Len(valid)
            /\ ~result.thrown =>
                  SelectSeq(result.output, IsBlockHeader)
                     = [k \in 1..Len(valid) |-> BlockHeaderOf(valid[k])]

\* a chart of two valid chord lines and an invalid one
C9_Witness ==
    /\ called
    /\ tabFormat = CHORD_CHART
    /\ ~result.thrown
    /\ Len(chords) = 2
    /\ Len(NonBlankLines(tabText.text)) = 3
    /\ Len(SelectSeq(result.output, IsBlockHeader)) = 2

\* C10: the UnsupportedFormat error is unreachable: the detector returns
\* None or one of the three formats convert has a handler for, so the
\* default branch of the switch is never taken.
C10_UnsupportedFormatUnreachable ==
    called =>
        /\ result.message # Wrapped(UnsupportedFormatMessage)
        /\ result.message # UnsupportedFormatMessage
        /\ tabFormat \in {NoFormat, CHORD_CHART, STANDARD_TAB, LABELED_TAB}
        /\ ~IsRejectedInput(tabText) =>
              detectTabFormat(tabText.text) \in {NoFormat, CHORD_CHART, STANDARD_TAB, LABELED_TAB}

\* a labeled tab reaches the handler of the tablature formats
C10_Witness ==
    /\ called
    /\ tabFormat = LABELED_TAB
    /\ ~result.thrown
    /\ Len(tabData.sequences) >= 1
\* the value of a key of the caller's settings when it is a boolean
HasBooleanSetting(settings, key) ==
    /\ settings.kind = "object"
    /\ key \in DOMAIN settings.fields
    /\ settings.fields[key] \in {"true", "false"}

\* C11: the settings a conversion uses are exactly the four keys
\* includeTiming, verboseMode, useStringNames, includeTechniqueDetails, each a
\* boolean: the caller's value when that is a boolean, true otherwise
\* (missing key, non-boolean value, null or non-object settings); no other
\* key of the caller's object reaches the formatter.
C11_SettingsAreFourBooleans ==
    (called /\ ~IsRejectedInput(tabText)) =>
        /\ DOMAIN usedSettings = SettingKeys
        /\ \A key \in SettingKeys :
              /\ usedSettings[key] \in BOOLEAN
              /\ HasBooleanSetting(settingsInput, key)
                    => usedSettings[key] = (settingsInput.fields[key] = "true")
              /\ ~HasBooleanSetting(settingsInput, key) => usedSettings[key] = TRUE

\* a call whose settings hold a key that is not known and a boolean one
C11_Witness ==
    /\ called
    /\ settingsInput.kind = "object"
    /\ "colorScheme" \in DOMAIN settingsInput.fields
    /\ DOMAIN usedSettings = SettingKeys
    /\ usedSettings["useStringNames"] = FALSE
    /\ usedSettings["verboseMode"] = TRUE
    /\ ~result.thrown
\* the keys of the techniqueMap of findTechniques
TechniqueSymbols == {"h", "p", "b", "r", "s", "/", "\\", "~", "t", "^", "v"}

\* s with the character c put in after its first i characters
InsertAt(s, i, c) == SubSeq(s, 1, i) \o <<c>> \o SubSeq(s, i + 1, Len(s))

\* the frets read on one string of a Sequence, in the order of the columns
StringFrets(sequence, stringIndex) ==
    LET onString(noteGroup) == SelectSeq(noteGroup.notes, LAMBDA n : n.stringIndex = stringIndex)
        F[g \in 0..Len(sequence.notes)] ==
            IF g = 0 THEN <<>>
            ELSE F[g - 1] \o [k \in 1..Len(onString(sequence.notes[g])) |->
                                onString(sequence.notes[g])[k].fret]
    IN  F[Len(sequence.notes)]

SameFrets(data, other) ==
    /\ Len(data.sequences) = Len(other.sequences)
    /\ \A s \in 1..Len(data.sequences) :
          /\ data.sequences[s].section = other.sequences[s].section
          /\ \A stringIndex \in 0..7 :
                StringFrets(data.sequences[s], stringIndex)
                   = StringFrets(other.sequences[s], stringIndex)

IsStandardTabText(text) ==
    \A i \in 1..Len(NonBlankLines(text)) : isStandardTabLine(NonBlankLines(text)[i])

\* the conversions of the text with one symbol put in immediately before
\* or immediately after one of its digit runs read the same frets
FretsStableUnderInsertion(symbols) ==
    (Converted /\ tabFormat = STANDARD_TAB /\ IsStandardTabText(tabText.text)) =>
        \A p \in DigitRunStarts(tabText.text) :
            \A at \in {p, p + DigitRunLen(tabText.text, p)} :
                \A c \in symbols :
                    SameFrets(tabData,
                              convert(Str(InsertAt(tabText.text, at, c)), settingsInput).tabData)

\* C12: putting any one technique symbol of the lexicon (h p b r s / \ ~ t
\* ^ v) immediately before or immediately after a fret's digit run in a line
\* of a standard tab changes neither the fret read for that note nor the
\* frets of the other notes of the group.
C12_InsertedSymbolKeepsFrets == FretsStableUnderInsertion(TechniqueSymbols)
\* the frets of the Notes a NoteGroup holds on one string
FretsOnString(noteGroup, stringIndex) ==
    {noteGroup.notes[k].fret :
        k \in {j \in 1..Len(noteGroup.notes) : noteGroup.notes[j].stringIndex = stringIndex}}

\* the contexts of the hammer-on entries of a Note
HammerContexts(note) ==
    {note.techniqueDetails[k].context :
        k \in {j \in 1..Len(note.techniqueDetails) :
                  note.techniqueDetails[j].name = "hammer-on"}}

CarriesHammerOn(note) == \E k \in 1..Len(note.techniques) : note.techniques[k] = "hammer-on"

\* C13: a Note with the hammer-on technique at fret B whose previous
\* NoteGroup of the Sequence holds a Note on the same stringIndex with the
\* numeric fret A has the context "Hammer from A to B"; without a previous
\* NoteGroup, without a Note on that string in it, or with that Note muted,
\* the context is the empty string.
C13_HammerContextFromPrevious ==
    (Converted /\ IsTablature) =>
        \A s \in 1..Len(tabData.sequences) :
            \A g \in 1..Len(tabData.sequences[s].notes) :
                \A k \in 1..Len(tabData.sequences[s].notes[g].notes) :
                    LET note == tabData.sequences[s].notes[g].notes[k]
                        before == IF g = 1 THEN {}
                                  ELSE FretsOnString(tabData.sequences[s].notes[g - 1],
                                                     note.stringIndex)
                    IN  CarriesHammerOn(note) =>
                            /\ HammerContexts(note) # {}
                            /\ before \subseteq {Mute} => HammerContexts(note) = {""}
                            /\ \A A \in 0..MaxTokenValue :
                                  (before = {A} /\ note.fret # Mute) =>
                                      HammerContexts(note)
                                         = {"Hammer from " \o ToString(A) \o " to "
                                            \o ToString(note.fret)}

\* the 7 of "5h7": hammered from the 5 before it on the same string
C13_Witness ==
    /\ Converted
    /\ IsTablature
    /\ \E s \in 1..Len(tabData.sequences) :
          \E g \in 2..Len(tabData.sequences[s].notes) :
              \E k \in 1..Len(tabData.sequences[s].notes[g].notes) :
                  LET note == tabData.sequences[s].notes[g].notes[k]
                  IN  /\ note.fret = 7
                      /\ CarriesHammerOn(note)
                      /\ FretsOnString(tabData.sequences[s].notes[g - 1], note.stringIndex) = {5}
                      /\ HammerContexts(note) = {"Hammer from 5 to 7"}
\* the suffix of the rule: st, nd, rd for a last digit 1, 2, 3 outside
\* 11, 12, 13, and th otherwise
SuffixByRule(n) ==
    CASE n % 10 = 1 /\ n % 100 # 11 -> "st"
      [] n % 10 = 2 /\ n % 100 # 12 -> "nd"
      [] n % 10 = 3 /\ n % 100 # 13 -> "rd"
      [] OTHER -> "th"

\* the places of a line of the output that hold the word " fret"
FretWordPlaces(line) == {i \in 3..Len(line) : line[i] = " fret"}

\* C14: getOrdinalSuffix(n) for every fret number n in 0..24 is "st" when
\* n mod 10 = 1 and n mod 100 is not 11, "nd" when n mod 10 = 2 and n mod 100
\* is not 12, "rd" when n mod 10 = 3 and n mod 100 is not 13, "th" otherwise;
\* f(1)=st, f(2)=nd, f(3)=rd, f(11)=f(12)=f(13)=th, f(21)=st. Every fret the
\* output names carries this suffix.
C14_OrdinalSuffix ==
    /\ \A n \in 0..MaxFretNumber : getOrdinalSuffix(n) = SuffixByRule(n)
    /\ getOrdinalSuffix(1) = "st" /\ getOrdinalSuffix(2) = "nd" /\ getOrdinalSuffix(3) = "rd"
    /\ getOrdinalSuffix(11) = "th" /\ getOrdinalSuffix(12) = "th"
    /\ getOrdinalSuffix(13) = "th" /\ getOrdinalSuffix(21) = "st"
    /\ Converted =>
          \A l \in 1..Len(result.output) :
              \A i \in FretWordPlaces(result.output[l]) :
                  \E n \in 0..MaxFretNumber :
                      /\ result.output[l][i - 2] = ToString(n)
                      /\ result.output[l][i - 1] = SuffixByRule(n)

\* a chord chart whose output names the 21st fret
C14_Witness ==
    /\ Converted
    /\ \E l \in 1..Len(result.output) :
          \E i \in FretWordPlaces(result.output[l]) :
              result.output[l][i - 2] = "21" /\ result.output[l][i - 1] = "st"
\* the line of the chart for the i-th fret entry (from 1) of a chord
ChartLineOf(chord, i, useStringNames) ==
    LET table == CASE Len(chord.frets) = 7 -> names7
                   [] Len(chord.frets) = 8 -> names8
                   [] OTHER -> names6
        label == IF useStringNames THEN table[i] ELSE "String " \o ToString(i)
        fret == chord.frets[i]
    IN  CASE fret = Mute -> <<"- ", label, ": muted">>
          [] fret = 0 -> <<"- ", label, ": open">>
          [] OTHER -> <<"- ", label, ": ", ToString(fret), SuffixByRule(fret), " fret">>

\* the line of the output at which the block of the j-th chord starts
RECURSIVE BlockStart(_, _)
BlockStart(chordList, j) ==
    IF j = 1 THEN 3 ELSE BlockStart(chordList, j - 1) + Len(chordList[j - 1].frets) + 2

ScenarioChordF == <<"F", ":", " ", "1", "-", "3", "-", "3", "-", "2", "-", "1", "-", "1">>

\* C15: the chord chart has, for each Chord with N frets, exactly N string
\* lines in the order of the fret entries, the i-th labeled with the i-th
\* name of the N-string name table (high E first) when useStringNames is
\* true, each stating open for fret 0, muted for Muted and the fret with its
\* ordinal suffix otherwise; the text does not end with a blank line; for
\* "F: 1-3-3-2-1-1" there are six lines, one per string.
C15_ChordChartLines ==
    (Converted /\ tabFormat = CHORD_CHART) =>
        /\ result.output[Len(result.output)] # <<>>
        /\ Len(result.output)
              = BlockStart(chords, Len(chords)) + Len(chords[Len(chords)].frets)
        /\ \A j \in 1..Len(chords) :
              LET start == BlockStart(chords, j)
                  N == Len(chords[j].frets)
              IN  /\ IsBlockHeader(result.output[start])
                  /\ \A i \in 1..N :
                        result.output[start + i]
                           = ChartLineOf(chords[j], i, usedSettings["useStringNames"])
                  /\ start + N < Len(result.output) => result.output[start + N + 1] = <<>>
        /\ (tabText = Str(ScenarioChordF) /\ usedSettings["useStringNames"]) =>
              result.output
                 = << <<"Chord Chart:">>, <<>>,
                      <<"F", " chord (", "6", "-string):">>,
                      <<"- ", "high E", ": ", "1", "st", " fret">>,
                      <<"- ", "B", ": ", "3", "rd", " fret">>,
                      <<"- ", "G", ": ", "3", "rd", " fret">>,
                      <<"- ", "D", ": ", "2", "nd", " fret">>,
                      <<"- ", "A", ": ", "1", "st", " fret">>,
                      <<"- ", "low E", ": ", "1", "st", " fret">> >>

\* the chart of "F: 1-3-3-2-1-1" with string names
C15_Witness ==
    /\ Converted
    /\ tabText = Str(ScenarioChordF)
    /\ usedSettings["useStringNames"]
    /\ Len(result.output) = 9
\* C16: the 8-line labeled block of the documented 8-string example, with
\* the labels e, B, G, D, A, E, B, F#, becomes one TabGroup of 8 StringLines;
\* the F# line is a tab line and the 8th string (stringIndex 7), and its
\* notes are in the Sequence.
C16_EightStringLabeledBlock ==
    (called /\ tabText = Str(ScenarioEightStringLabeled)) =>
        /\ Len(tabData.tabLineGroups) = 1
        /\ Len(tabData.tabLineGroups[1]) = 8
        /\ \E i \in 1..Len(tabData.tabLineGroups[1]) :
              /\ LabelLetter(tabData.tabLineGroups[1][i]) = "F"
              /\ tabData.tabLineGroups[1][i].stringIndex = 7
        /\ Len(tabData.sequences) = 1
        /\ \E g \in 1..Len(tabData.sequences[1].notes) :
              HasNote(tabData.sequences[1].notes[g], 7, 8)
\* the name table of a guitar of N strings
NameTableOf(N) ==
    CASE N = 6 -> STRING_NAMES
      [] N = 7 -> STRING_NAMES_7
      [] N = 8 -> STRING_NAMES_8

TerminalErrorMessages ==
    { EmptyInputMessage,
      NoValidFormatMessage,
      Wrapped(NoValidChordsMessage),
      Wrapped(NoNotesFoundMessage),
      Wrapped(UnsupportedFormatMessage) }

\* C19: every convert call ends either with a formatted output and no
\* error, or with one of the terminal errors (EmptyInput, NoValidFormat,
\* NoValidChords, NoNotesFound, UnsupportedFormat) and no output; a call
\* from which a chord or a note was parsed does not fail, whatever
\* malformed lines, techniques or annotations the text holds besides.
C19_OutputOrTerminalError ==
    called =>
        /\ result.thrown =>
              /\ result.message \in TerminalErrorMessages
              /\ result.output = EmptyText
        /\ ~result.thrown =>
              /\ result.message = ""
              /\ result.output # EmptyText
        /\ Len(chords) > 0 => ~result.thrown
        /\ Len(tabData.sequences) > 0 => ~result.thrown
        /\ (tabFormat = CHORD_CHART
               /\ Len(ValidChordLines(NonBlankLines(tabText.text))) > 0) => ~result.thrown
        /\ (IsTablature /\ GroupsWithNotes # {}) => ~result.thrown

\* a tablature with a group that gave no Sequence and with a line that is
\* kept as an annotation is converted
C19_Witness ==
    /\ called
    /\ IsTablature
    /\ ~result.thrown
    /\ Len(tabData.sequences) < Len(tabData.tabLineGroups)
    /\ Len(tabData.annotations) > 0

\* the groups all hold between 3 and 8 StringLines
GroupsHoldThreeToEight(groups) ==
    \A g \in 1..Len(groups) : Len(groups[g]) >= 3 /\ Len(groups[g]) <= 8

\* C20: every TabGroup the tablature parser builds, for standard and for
\* labeled input, holds between 3 and 8 StringLines, both when the parser
\* gets every line of the text and when it gets the lines through convert,
\* which removes the blank lines first.
C20_TabGroupHoldsThreeToEight ==
    (called /\ IsTablature) =>
        /\ GroupsHoldThreeToEight(identifyTabLines(Split(tabText.text, NL)))
        /\ GroupsHoldThreeToEight(tabData.tabLineGroups)

\* the number of blocks of a text made of blocks of exactly six standard
\* tab lines with one blank line between two blocks; 0 for any other text
SixLineBlockCount(text) ==
    LET ls == Split(text, NL)
    IN  IF /\ (Len(ls) + 1) % 7 = 0
           /\ \A i \in 1..Len(ls) :
                 IF i % 7 = 0 THEN ~IsNonBlank(ls[i])
                 ELSE isStandardTabLine(Trim(ls[i]))
        THEN (Len(ls) + 1) \div 7
        ELSE 0

\* C21: a standard tab of k blocks of exactly 6 unlabeled lines, the
\* blocks separated by blank lines, is grouped by convert into k TabGroups
\* of 6 lines, block by block: the j-th line of a block has string index j
\* in the group of its block, and no line joins the preceding group.
C21_SixLineBlocksStayApart ==
    (called /\ ~IsRejectedInput(tabText) /\ SixLineBlockCount(tabText.text) > 0) =>
        LET ls == Split(tabText.text, NL)
            groups == tabData.tabLineGroups
        IN  /\ tabFormat = STANDARD_TAB
            /\ Len(groups) = SixLineBlockCount(tabText.text)
            /\ \A g \in 1..Len(groups) :
                  /\ Len(groups[g]) = 6
                  /\ \A j \in 1..Len(groups[g]) :
                        /\ groups[g][j].stringIndex = j - 1
                        /\ 7 * (g - 1) + j <= Len(ls)
                        /\ groups[g][j].content = Trim(ls[7 * (g - 1) + j])

\* a line that begins with a string letter followed by ':' or '|' and
\* holds a digit or a dash
BeginsWithStringLabel(line) ==
    /\ Len(line) >= 2
    /\ line[1] \in {"E", "A", "D", "G", "B", "e"}
    /\ LET sep == 2 + RunLen(Tail2(line, 2), Whitespace)
       IN  sep <= Len(line) /\ line[sep] \in {":", "|"}
    /\ \E i \in 1..Len(line) : line[i] \in Digits \cup {"-"}

\* C22: only a line that begins with a string letter (E, A, D, G, B, e)
\* followed by ':' or '|' and holding a digit or a dash is a labeled tab
\* line; any other line, such as "Note: play 1-2", is no tab line, does not
\* count towards the LabeledTab threshold of 3 lines and, when it is no
\* standard tab line and no legend line, becomes an Annotation.
C22_TabLineBeginsWithLabel ==
    (called /\ ~IsRejectedInput(tabText)) =>
        LET lines == NonBlankLines(tabText.text)
        IN  /\ \A i \in 1..Len(lines) :
                  isTabLine(lines[i]) => BeginsWithStringLabel(Trim(lines[i]))
            /\ tabFormat = LABELED_TAB =>
                  Len(SelectSeq(lines, LAMBDA l : BeginsWithStringLabel(Trim(l)))) >= 3
            /\ IsTablature =>
                  \A i \in 1..Len(lines) :
                      (/\ ~BeginsWithStringLabel(Trim(lines[i]))
                       /\ ~isStandardTabLine(lines[i])
                       /\ ~isTechniqueLine(lines[i]))
                      => \E a \in 1..Len(tabData.annotations) :
                            tabData.annotations[a].text = Trim(lines[i])

\* the contexts of the entries of a Note's techniqueDetails with one name
ContextsNamed(note, name) ==
    {note.techniqueDetails[k].context :
        k \in {j \in 1..Len(note.techniqueDetails) : note.techniqueDetails[j].name = name}}

CarriesTechnique(note, name) ==
    \E k \in 1..Len(note.techniques) : note.techniques[k] = name

ContextPhrase(name) ==
    CASE name = "pull-off" -> "Pull off from "
      [] name = "slide up" -> "Slide up from "
      [] OTHER -> "Slide down from "

NextGroupTechniques == {"pull-off", "slide up", "slide down"}

ParsedSequences == parse(NonBlankLines(tabText.text)).sequences

\* an enhanced Note is the Note with techniqueDetails added
SameNote(before, after) ==
    /\ after.string = before.string
    /\ after.stringIndex = before.stringIndex
    /\ after.fret = before.fret
    /\ after.techniques = before.techniques
    /\ after.position = before.position
    /\ Len(after.techniqueDetails) = Len(before.techniques)
    /\ \A t \in 1..Len(after.techniqueDetails) :
          after.techniqueDetails[t].name = before.techniques[t]

SameNoteGroup(before, after) ==
    /\ after.position = before.position
    /\ after.isChord = before.isChord
    /\ after.annotation = before.annotation
    /\ Len(after.notes) = Len(before.notes)
    /\ \A k \in 1..Len(after.notes) : SameNote(before.notes[k], after.notes[k])

CategoryRules == <<"section", "lyrics", "timing", "instruction", "chords">>

MatchesRule(rule, t) ==
    CASE rule = "section" -> IsSectionText(t)
      [] rule = "lyrics" -> IsLyricsText(t)
      [] rule = "timing" -> IsTimingText(t)
      [] rule = "instruction" -> IsInstructionText(t)
      [] OTHER -> IsChordsText(t)

RulesMatching(t) == {r \in 1..Len(CategoryRules) : MatchesRule(CategoryRules[r], t)}

FirstMatchingCategory(t) ==
    IF RulesMatching(t) = {} THEN "note"
    ELSE CategoryRules[CHOOSE r \in RulesMatching(t) : \A q \in RulesMatching(t) : r <= q]

\* the Annotations taken from one line of the lines the parser gets
AnnotationsOfLine(i) ==
    {a \in 1..Len(tabData.annotations) : tabData.annotations[a].lineNumber = i}

\* C25: every non-blank line that is neither a tab line (a labeled line,
\* which begins with a string letter and a separator, or a standard line)
\* nor a technique-legend line yields exactly one Annotation, every other
\* line none; its category is the first rule that matches in the order
\* section, lyrics, timing, instruction, chords, and note when none matches.
C25_OneAnnotationPerFreeLine ==
    (called /\ IsTablature) =>
        LET lines == NonBlankLines(tabText.text)
        IN  /\ \A a \in 1..Len(tabData.annotations) :
                  tabData.annotations[a].lineNumber \in 0..(Len(lines) - 1)
            /\ \A i \in 1..Len(lines) :
                  IF \/ BeginsWithStringLabel(Trim(lines[i]))
                     \/ isStandardTabLine(lines[i])
                     \/ isTechniqueLine(lines[i])
                  THEN AnnotationsOfLine(i - 1) = {}
                  ELSE /\ Cardinality(AnnotationsOfLine(i - 1)) = 1
                       /\ \A a \in AnnotationsOfLine(i - 1) :
                             /\ tabData.annotations[a].text = Trim(lines[i])
                             /\ tabData.annotations[a].category
                                   = FirstMatchingCategory(Trim(lines[i]))

\* the Annotations within 10 columns of a column and within 2 lines of a line
AnnotationsInReach(pos, line) ==
    {a \in 1..Len(tabData.annotations) :
        /\ tabData.annotations[a].position - pos \in -10..10
        /\ tabData.annotations[a].lineNumber - line \in -2..2}

\* C26: the annotation of a NoteGroup at column pos is the text of the
\* first Annotation, in input order, within 10 columns of pos and within
\* 2 lines of the first StringLine of the group, and is absent when no
\* Annotation is within both bounds; no Annotation is used up by a
\* NoteGroup, so several NoteGroups may carry the same one.
C26_FirstAnnotationInReach ==
    (called /\ IsTablature) =>
        \A s \in 1..Len(tabData.sequences) :
            LET firstLine == tabData.tabLineGroups[tabData.sequences[s].section][1].lineNumber
            IN  \A g \in 1..Len(tabData.sequences[s].notes) :
                    LET noteGroup == tabData.sequences[s].notes[g]
                        near == AnnotationsInReach(noteGroup.position, firstLine)
                    IN  IF near = {}
                        THEN noteGroup.annotation = <<>>
                        ELSE \E a \in near :
                                /\ \A b \in near : a <= b
                                /\ noteGroup.annotation = tabData.annotations[a].text

\* two NoteGroups of a Sequence carry the first of two Annotations in reach
\* and a third NoteGroup, more than 10 columns away, carries none
C26_Witness ==
    /\ called
    /\ IsTablature
    /\ Len(tabData.annotations) = 2
    /\ \E s \in 1..Len(tabData.sequences) :
          LET groups == tabData.sequences[s].notes
          IN  /\ Len(groups) = 3
              /\ groups[1].annotation = tabData.annotations[1].text
              /\ groups[2].annotation = tabData.annotations[1].text
              /\ groups[3].annotation = <<>>
              /\ groups[3].position > 10

HasToken(line, token) == \E n \in 1..Len(line) : line[n] = token

\* the data of a tablature with every Annotation taken out
WithoutAnnotations(data) ==
    [sequences |->
        [s \in 1..Len(data.sequences) |->
            [data.sequences[s] EXCEPT !.notes =
                [g \in 1..Len(data.sequences[s].notes) |->
                    [data.sequences[s].notes[g] EXCEPT !.annotation = <<>>]]]],
     annotations |-> <<>>,
     tabLineGroups |-> data.tabLineGroups]

\* C27: with includeTiming false the tablature output carries no text of
\* an Annotation: no "Tab Information" block, no suffix in a "Section N"
\* header, no bracketed annotation after a note line, so the output is the
\* one of the same tablature without Annotations; with includeTiming true
\* and at least one Annotation the output starts with "Tab Information".
C27_NoAnnotationTextWithoutTiming ==
    (Converted /\ IsTablature) =>
        /\ ~usedSettings.includeTiming =>
              /\ \A n \in 1..Len(result.output) :
                    /\ ~HasToken(result.output[n], "Tab Information:")
                    /\ ~HasToken(result.output[n], " [")
                    /\ IsSectionHeader(result.output[n]) =>
                          result.output[n] = <<"Section ", result.output[n][2], ":">>
              /\ result.output = formatTablature(WithoutAnnotations(tabData), usedSettings)
        /\ (usedSettings.includeTiming /\ Len(tabData.annotations) >= 1) =>
              /\ Len(result.output[1]) >= 1
              /\ result.output[1][1] = "Tab Information:"

\* a tablature with an Annotation attached to a NoteGroup is converted
\* with includeTiming false
C27_Witness ==
    /\ Converted
    /\ IsTablature
    /\ ~usedSettings.includeTiming
    /\ Len(tabData.annotations) >= 1
    /\ \E s \in 1..Len(tabData.sequences) :
          \E g \in 1..Len(tabData.sequences[s].notes) :
              tabData.sequences[s].notes[g].annotation # <<>>

\* the length of the longest line of a group
LongestLine(group) == MaxOf({Len(group[i].content) : i \in 1..Len(group)})

WellFormedNoteGroup(noteGroup) ==
    /\ Len(noteGroup.notes) >= 1
    /\ noteGroup.isChord <=> Len(noteGroup.notes) > 1
    /\ \A k \in 1..(Len(noteGroup.notes) - 1) :
          noteGroup.notes[k].stringIndex <= noteGroup.notes[k + 1].stringIndex

WellFormedSequence(sequence, group) ==
    /\ \A g \in 1..Len(sequence.notes) :
          /\ WellFormedNoteGroup(sequence.notes[g])
          /\ sequence.notes[g].position >= 0
          /\ sequence.notes[g].position < LongestLine(group)
    /\ \A g \in 1..(Len(sequence.notes) - 1) :
          sequence.notes[g].position < sequence.notes[g + 1].position

\* C28: every Sequence of the tablature parser is well formed: its
\* NoteGroups are in strictly increasing position order, each position is
\* a column below the length of the longest line of the group, every
\* NoteGroup holds at least one Note, isChord is true exactly when it holds
\* more than one, and its Notes are in non-decreasing stringIndex order.
C28_SequencesWellFormed ==
    (called /\ IsTablature) =>
        \A s \in 1..Len(tabData.sequences) :
            /\ tabData.sequences[s].section \in 1..Len(tabData.tabLineGroups)
            /\ WellFormedSequence(tabData.sequences[s],
                                  tabData.tabLineGroups[tabData.sequences[s].section])

\* lines given from the G string up to the high e string: the chord at
\* their common column lists the Notes from the high e string down, and a
\* single Note follows
C28_Witness ==
    /\ called
    /\ tabText = Str(ScenarioLabelsLowToHigh)
    /\ Len(tabData.sequences) = 1
    /\ Len(tabData.sequences[1].notes) = 2
    /\ tabData.sequences[1].notes[1].isChord
    /\ [k \in 1..3 |-> tabData.sequences[1].notes[1].notes[k].fret] = <<1, 0, 3>>
    /\ ~tabData.sequences[1].notes[2].isChord

\* a group built by the rule of the unlabeled lines: standard tab lines,
\* the string given by the place of the line in the group
BuiltFromUnlabeledLines(group) ==
    \A j \in 1..Len(group) :
        /\ isStandardTabLine(group[j].content)
        /\ group[j].stringIndex = j - 1

\* a group built by the rule of the labeled lines: labeled tab lines, the
\* string given by the leading letter
BuiltFromLabeledLines(group) ==
    \A j \in 1..Len(group) :
        /\ isTabLine(group[j].content)
        /\ identifyString(group[j].content).found
        /\ group[j].stringIndex = identifyString(group[j].content).index

\* C29: the grouping rule of the tablature parser agrees with the format
\* the detector returned: for LabeledTab every TabGroup is built from
\* labeled lines with the string taken from the leading letter, for
\* StandardTab from unlabeled lines with the string taken from the place
\* of the line; the other rule is never used for the same text.
C29_GroupingAgreesWithFormat ==
    called =>
        /\ tabFormat = LABELED_TAB =>
              \A g \in 1..Len(tabData.tabLineGroups) :
                  BuiltFromLabeledLines(tabData.tabLineGroups[g])
        /\ tabFormat = STANDARD_TAB =>
              \A g \in 1..Len(tabData.tabLineGroups) :
                  BuiltFromUnlabeledLines(tabData.tabLineGroups[g])

IsChordOutputLine(line) == Len(line) >= 1 /\ line[1] = "- Chord: "

\* C30: in verbose mode with useStringNames false the chord line labels
\* every Note with the ordinal number of its string, "1st" to "8th" for
\* the stringIndex 0 to 7, the 7th and 8th string of 7- and 8-string groups
\* included; no label comes from a missing table entry.
C30_ChordLabelsAreOrdinals ==
    (Converted /\ IsTablature /\ usedSettings.verboseMode /\ ~usedSettings.useStringNames) =>
        /\ \A n \in 1..Len(result.output) :
              IsChordOutputLine(result.output[n]) =>
                  \A t \in 2..Len(result.output[n]) :
                      result.output[n][t] = " string" =>
                          \E k \in 1..Len(STRING_NUMBERS_8) :
                              result.output[n][t - 1] = STRING_NUMBERS_8[k]
        /\ \A s \in 1..Len(tabData.sequences) :
              \A g \in 1..Len(tabData.sequences[s].notes) :
                  LET noteGroup == tabData.sequences[s].notes[g]
                  IN  (noteGroup.isChord /\ Len(noteGroup.notes) > 1) =>
                          \A k \in 1..Len(noteGroup.notes) :
                              /\ noteGroup.notes[k].stringIndex \in 0..7
                              /\ HasToken(formatChord(noteGroup.notes, usedSettings),
                                          STRING_NUMBERS_8[noteGroup.notes[k].stringIndex + 1])

====
